---- MODULE Spec2Model ----
(***************************************************************************)
(* Admission, caching and resource layer of the colorization bot.          *)
(*                                                                         *)
(* One job is one invocation of ColorizationBot.handle_image (bot.py).     *)
(* The asyncio event loop runs one coroutine at a time, so the code        *)
(* between two awaits is one atomic action; a job's pc names the await     *)
(* it is suspended at.  The executor thread of AsyncImageProcessor runs    *)
(* concurrently with the loop and is a step of its own (WorkerRun).        *)
(***************************************************************************)
EXTENDS Integers, Sequences, FiniteSets, TLC

\* ---------------------------------------------------------------- bounds
NumJobs == 3          \* handle_image invocations in one behaviour
MaxConcurrent == 1    \* LoadBalancer(max_concurrent), scaled down
Ttl == 2              \* ImageCache.ttl in clock ticks, scaled down
MaxTime == 3          \* the clock stops here
CacheJobs == 2        \* jobs of the caching scenario
MaxStuck == 1         \* paths whose unlink fails at one time
NumRecorders == 2     \* concurrent callers of record_metric
MetricsCap == 1       \* the 10000 of record_metric's ltrim, scaled down
NumRequests == 2      \* concurrent requests of one user
RATE_LIMIT_PER_USER == 2  \* the 50 of config.py, scaled down
MaxPushes == 3        \* entries pushed to the metrics log in one behaviour

Jobs == 1..NumJobs

\* ------------------------------------------------------------ byte values
\* File contents and payloads are byte strings, modelled as sequences.
Empty == <<>>                      \* b"" : a zero-length file / payload
None == <<"None">>                 \* Python's None (not a byte string)
NoFile == <<"ENOENT">>             \* the path does not exist
PhotoA == <<"A">>                  \* a small valid photo
PhotoB == <<"B">>                  \* a valid photo larger than max_size
PhotoX == <<"X">>                  \* bytes that cv2.imread cannot decode
Photos == {PhotoA, PhotoB, PhotoX}

\* utils.validate_image: (is_valid, error_message) reduced to is_valid
validate_image(data) ==
    IF data = NoFile THEN FALSE               \* "File does not exist"
    ELSE data \in {PhotoA, PhotoB, <<"b">>}   \* cv2.imread(...) is not None

\* utils.resize_image_if_needed: the file's bytes after the call
resize_image_if_needed(data) ==
    IF data = PhotoB THEN <<"b">> ELSE data

\* enhance_colorized_image + cv2.imwrite: the JPEG bytes written for an image
imwrite(image) == <<"jpeg">> \o image

\* hashlib.md5(...).hexdigest(): a digest of the bytes (collision-free on
\* the few values of the model)
Md5(data) == <<"md5">> \o data

\* str(time.time()).encode()
TimeBytes(t) == <<"time", ToString(t)>>

\* ImageCache._get_image_hash: `data` is what open(image_path,'rb').read()
\* finds at time t; a missing file raises and the except branch hashes the
\* clock instead.
HashOfClock(data, t) == Md5(TimeBytes(t))
_get_image_hash(data, t) ==
    IF data # NoFile THEN Md5(data) ELSE Md5(TimeBytes(t))

\* cache_key = f"colorized:{image_hash}"
CacheKey(image_hash) == <<"colorized:">> \o image_hash

\* `if result:` / `if cached_result:` on Optional[bytes]
Truthy(r) == r # None /\ Len(r) > 0

\* ------------------------------------------------------------------ state
VARIABLES
    now,                 \* time.time(), in ticks
    pc,                  \* job -> the await it is suspended at
    photo,               \* job -> bytes of the photo it was sent
    input_file,          \* job -> bytes at temp_input_path, or NoFile
    output_file,         \* job -> bytes at temp_output_path, or NoFile
    temp_files,          \* ResourceManager.temp_files
    redis,               \* the "colorized:*" keys: set of [key, val, exp]
    cache_key,           \* job -> key of its redis call in flight
    result_bytes,        \* job -> handle_image's result_bytes
    colorized_image,     \* job -> what the executor thread produced
    sem_value,           \* LoadBalancer.semaphore._value
    sem_waiters,         \* LoadBalancer.semaphore._waiters
    active_requests,     \* LoadBalancer.active_requests
    active_tasks,        \* AsyncImageProcessor.active_tasks
    max_active_tasks,    \* AsyncImageProcessor.max_active_tasks
    cache_hits,          \* ImageCache.cache_hits
    cache_misses,        \* ImageCache.cache_misses
    request_count,       \* PerformanceMonitor.request_count
    monitor_active,      \* PerformanceMonitor.active_requests
    error_count,         \* PerformanceMonitor.error_count
    stuck,               \* the paths whose os.unlink raises at present
    cleaner,             \* what the last tick of periodic_cleanup did
    health_status,       \* HealthChecker.health_status
    last_health_check,   \* HealthChecker.last_health_check
    checker,             \* caller of check_health -> where it is, its snapshot
    metrics,             \* the redis list "bot:metrics", newest entry first
    recorder,            \* caller of record_metric -> where it is, its entry
    reader,              \* get_metrics_summary: where it is, its cutoff_time
    pools,               \* OptimizedConnectionPool.db_pool and .redis_pool
    service,             \* start_polling: how far start-up or shutdown got
    \* ---- observations of the run (no code reads them)
    arrival,             \* job -> its rank among the calls of process_request
    acquired,            \* job -> times `async with semaphore` was entered
    released,            \* job -> times it was exited
    offloaded,           \* job -> times run_in_executor was called for it
    lookup_log,          \* job -> what its get_cached_result saw and returned
    store_log,           \* job -> what its cache_result did
    last_sent,           \* bytes -> the latest job on them stored and delivered
    last_good,           \* bytes -> the latest one that reached the store
    hash_log,            \* bytes -> first and latest digest computed for them
    outcome,             \* job -> how handle_image ended
    sweep_log,           \* what the last cleanup_temp_files met and left
    health_loop,         \* what start_health_monitoring's last check did
    health_log,          \* what the last completed check_health was given
    pushes,              \* entries pushed to "bot:metrics" so far
    report,              \* the last report a reporting operation returned
    rate_key,            \* the redis key "rate_limit:{user_id}" of one user
    limiter,             \* caller of check_rate_limit -> where it is, what it read
    granted              \* requests admitted since the key's window began

prog_vars == <<now, pc, photo, input_file, output_file, temp_files, redis,
               cache_key, result_bytes, colorized_image>>
lb_vars == <<sem_value, sem_waiters, active_requests>>
stat_vars == <<active_tasks, max_active_tasks, cache_hits, cache_misses,
               request_count, monitor_active, error_count>>
obs_vars == <<arrival, acquired, released, offloaded, lookup_log, store_log,
              last_sent, last_good, hash_log, outcome>>
sweep_vars == <<stuck, cleaner, sweep_log>>
health_vars == <<health_status, last_health_check, checker, health_loop,
                 health_log>>
svc_vars == <<metrics, recorder, reader, pushes, report, pools, service>>
rate_vars == <<rate_key, limiter, granted>>
vars == <<prog_vars, lb_vars, stat_vars, obs_vars, sweep_vars, health_vars,
          svc_vars, rate_vars>>

\* bytes a file that is hashed can hold
Hashable == {PhotoA, PhotoB, PhotoX, <<"b">>}

\* who calls check_health: the monitoring task and the /health command
Callers == {"monitor", "command"}

\* the coroutines that call record_metric at one time
Recorders == 1..NumRecorders

\* a recorder outside record_metric; no report returned yet
NoSample == [name |-> "none", value |-> 0, timestamp |-> 0, seq |-> 0]
Idle == [pc |-> "idle", text |-> <<"none", NoSample>>, done |-> "none"]
NoReport == [op |-> "none", arg |-> 0, log |-> <<>>, value |-> 0]

\* start_polling after init_services succeeded: the dispatcher polls
Running == [phase |-> "polling", pool_failure |-> FALSE, init_pools |-> "ok",
            init_services |-> "ok", polled |-> TRUE, components |-> TRUE,
            close_pools |-> "none"]

\* ColorizationBot() before start_polling calls init_services
Constructed == [phase |-> "new", pool_failure |-> FALSE, init_pools |-> "none",
                init_services |-> "none", polled |-> FALSE,
                components |-> FALSE, close_pools |-> "none"]

\* one user's requests that call check_rate_limit at one time
Requests == 1..NumRequests

\* no rate-limit key in the store; a request outside check_rate_limit
NoKey == [val |-> 0, ttl |-> FALSE]
Resting == [pc |-> "idle", current_requests |-> 0, returned |-> "none"]

\* last_health_check before any check: Python's None
NoSnapshot == [none |-> TRUE]

\* observations not made yet
NoLoop == [raised |-> FALSE, after_raise |-> FALSE, alive |-> TRUE]
NoProbes == [seen |-> FALSE, prev |-> "unknown", db |-> None, ping |-> None,
             net |-> None, cpu |-> 0, mem |-> 0]
NoHash == [seen |-> FALSE, first |-> None, last |-> None, aged |-> FALSE,
           later |-> FALSE]
NoLookup == [seen |-> FALSE, data |-> None, up |-> FALSE, result |-> None,
             sent_live |-> FALSE,
             good |-> None, good_live |-> FALSE]
NoStore == [seen |-> FALSE, data |-> None, up |-> FALSE, raced |-> FALSE]
NoEntry == [seen |-> FALSE, out |-> None, exp |-> 0]
NoSweep == [failed |-> {}, missing |-> FALSE, some |-> FALSE, left |-> {},
            gone |-> TRUE, raised |-> FALSE]
NoTick == [seen |-> FALSE, after_error |-> FALSE, memory_mb |-> 0,
           path |-> "none", gc |-> FALSE,
           swept |-> FALSE, alive |-> TRUE]

Fresh ==
    /\ now = 0
    /\ pc = [j \in Jobs |-> "idle"]
    /\ photo = [j \in Jobs |-> None]
    /\ input_file = [j \in Jobs |-> NoFile]
    /\ output_file = [j \in Jobs |-> NoFile]
    /\ temp_files = {}
    /\ redis = {}
    /\ cache_key = [j \in Jobs |-> None]
    /\ result_bytes = [j \in Jobs |-> None]
    /\ colorized_image = [j \in Jobs |-> None]
    /\ sem_value = MaxConcurrent
    /\ sem_waiters = <<>>
    /\ active_requests = 0
    /\ active_tasks = 0
    /\ max_active_tasks = 0
    /\ cache_hits = 0
    /\ cache_misses = 0
    /\ request_count = 0
    /\ monitor_active = 0
    /\ error_count = 0
    /\ arrival = [j \in Jobs |-> 0]
    /\ acquired = [j \in Jobs |-> 0]
    /\ released = [j \in Jobs |-> 0]
    /\ offloaded = [j \in Jobs |-> 0]
    /\ lookup_log = [j \in Jobs |-> NoLookup]
    /\ store_log = [j \in Jobs |-> NoStore]
    /\ last_sent = [b \in Hashable |-> NoEntry]
    /\ last_good = [b \in Hashable |-> NoEntry]
    /\ hash_log = [b \in Hashable |-> NoHash]
    /\ outcome = [j \in Jobs |-> "none"]
    /\ stuck = {}
    /\ cleaner = NoTick
    /\ sweep_log = NoSweep
    /\ health_status = "unknown"
    /\ last_health_check = NoSnapshot
    /\ health_loop = NoLoop
    /\ health_log = NoProbes
    /\ metrics = <<>>
    /\ recorder = [c \in Recorders |-> Idle]
    /\ reader = [pc |-> "idle", cutoff_time |-> 0]
    /\ pushes = 0
    /\ report = NoReport
    /\ rate_key = NoKey
    /\ limiter = [c \in Requests |-> Resting]
    /\ granted = 0

\* the service after init_services: pools open, monitoring task created
Init ==
    /\ Fresh
    /\ checker = [c \in Callers |->
                    [pc |-> IF c = "monitor" THEN "database" ELSE "idle",
                     db |-> None, database |-> None]]
    /\ pools = [db_pool |-> "open", redis_pool |-> "open"]
    /\ service = Running

\* the service as constructed: no pool, no task
PoolInit ==
    /\ Fresh
    /\ checker = [c \in Callers |->
                    [pc |-> "idle", db |-> None, database |-> None]]
    /\ pools = [db_pool |-> "none", redis_pool |-> "none"]
    /\ service = Constructed

\* ------------------------------------------------------- the cache store
\* redis.get(key): the value of a live entry, else None
RedisGet(db, key, t) ==
    IF \E e \in db : e.key = key /\ t < e.exp
    THEN (CHOOSE e \in db : e.key = key /\ t < e.exp).val
    ELSE None

\* redis.setex(key, ttl, value): replaces the entry of the key
RedisSetex(db, key, ttl, value, t) ==
    {e \in db : e.key # key} \cup {[key |-> key, val |-> value, exp |-> t + ttl]}

\* the store drops an entry when its time to live has elapsed
RedisExpire(db, t) == {e \in db : t < e.exp}

\* ---------------------------------------------------- asyncio.Semaphore
\* The semaphore of LoadBalancer: s = [value, waiters]; a waiter is
\* [job, done], done once its future has been given a result.
Sem(v, w) == [value |-> v, waiters |-> w]

\* Semaphore.locked()
Locked(s) == s.value = 0 \/ Len(s.waiters) > 0

Pending(w) == {i \in 1..Len(w) : ~w[i].done}

\* Semaphore._wake_up_next(): the first waiter whose future is not done
\* gets the permit
WakeLast(s) ==
    IF Pending(s.waiters) = {} THEN s
    ELSE LET i == CHOOSE k \in Pending(s.waiters) :
                      \A m \in Pending(s.waiters) : m <= k
         IN  Sem(s.value - 1, [s.waiters EXCEPT ![i].done = TRUE])
_wake_up_next(s) ==
    IF Pending(s.waiters) = {} THEN s
    ELSE LET i == CHOOSE k \in Pending(s.waiters) :
                      \A m \in Pending(s.waiters) : k <= m
         IN  Sem(s.value - 1, [s.waiters EXCEPT ![i].done = TRUE])

\* `while self._value > 0: if not self._wake_up_next(): break`
RECURSIVE WakeWhilePermits(_)
WakeWhilePermits(s) ==
    IF s.value > 0 /\ Pending(s.waiters) # {}
    THEN WakeWhilePermits(_wake_up_next(s))
    ELSE s

\* Semaphore.release()
ReleaseNoWake(s) == Sem(s.value + 1, s.waiters)
release(s) == _wake_up_next(Sem(s.value + 1, s.waiters))

\* the waiters without job j's future (self._waiters.remove(fut))
RemoveWaiter(w, j) == SelectSeq(w, LAMBDA x : x.job # j)

IsWaiter(w, j) == \E i \in 1..Len(w) : w[i].job = j
WaiterOf(w, j) == w[CHOOSE i \in 1..Len(w) : w[i].job = j]
\* the loop resumes woken tasks in the order their futures were set, which
\* is their order in the deque
FirstDone(w, j) ==
    /\ IsWaiter(w, j) /\ WaiterOf(w, j).done
    /\ \A i \in 1..Len(w) : w[i].done =>
          (CHOOSE k \in 1..Len(w) : w[k].job = j) <= i

\* ------------------------------------------------ small pieces of handlers
InPath(j) == <<j, "in">>          \* temp_input_path of job j
OutPath(j) == <<j, "out">>        \* temp_output_path of job j

\* PerformanceMonitor.decrement_request
decrement_request(n) == IF n - 1 > 0 THEN n - 1 ELSE 0

Max(a, b) == IF a > b THEN a ELSE b

Raised == <<"raise">>             \* the offloaded function raised

Paths == {InPath(j) : j \in Jobs} \cup {OutPath(j) : j \in Jobs}
FileAt(p) == IF p[2] = "in" THEN input_file[p[1]] ELSE output_file[p[1]]
Exists(p) == FileAt(p) # NoFile                     \* os.path.exists(p)

\* `if os.path.exists(p): os.unlink(p)` raises
UnlinkRaises(p) == Exists(p) /\ p \in stuck

\* the `finally` of handle_image's inner try raises: the unlink of the input
\* file or, when that went through, the unlink of the output file
CleanupRaises(j) == UnlinkRaises(InPath(j)) \/ UnlinkRaises(OutPath(j))

\* the `finally` of handle_image's inner try: unregister both paths, then
\* unlink the input file, then the output file; an unlink that raises ends it
RemoveTempFiles(j) ==
    /\ temp_files' = temp_files \ {InPath(j), OutPath(j)}
    /\ input_file' = IF UnlinkRaises(InPath(j)) THEN input_file
                     ELSE [input_file EXCEPT ![j] = NoFile]
    /\ output_file' = IF CleanupRaises(j) THEN output_file
                      ELSE [output_file EXCEPT ![j] = NoFile]

\* handle_image returns or raises: how it ended, and the outer `finally`
\* (`dec` counts the calls of decrement_request on the way out, `err` those
\* of record_error); the coroutine's locals are gone
Leave(j, how, dec, err) ==
    /\ pc' = [pc EXCEPT ![j] = "done"]
    /\ outcome' = [outcome EXCEPT ![j] = how]
    /\ monitor_active' = IF dec = 2
                         THEN decrement_request(decrement_request(monitor_active))
                         ELSE decrement_request(monitor_active)
    /\ error_count' = error_count + err
    /\ cache_key' = [cache_key EXCEPT ![j] = None]
    /\ result_bytes' = [result_bytes EXCEPT ![j] = None]
    /\ colorized_image' = [colorized_image EXCEPT ![j] = None]

\* Leave after the inner `finally`: an exception of the unlink replaces
\* whatever the job was ending with (`raising`: an exception that the outer
\* `except Exception` was about to record) and is recorded once
Left(j, how, dec, err, raising) ==
    IF CleanupRaises(j)
    THEN Leave(j, "cleanup_error", dec, IF raising THEN err ELSE err + 1)
    ELSE Leave(j, how, dec, err)

\* the handler's `except Exception` after the inner `finally`; invalid input
\* is the one failure that records its error and returns
Fails(j, how) ==
    /\ RemoveTempFiles(j)
    /\ Left(j, how, 1, 1, how # "invalid")

\* LoadBalancer.process_request up to the first await of the wrapped call:
\* `async with self.semaphore` entered, active_requests += 1, then
\* AsyncImageProcessor.process_image_async up to run_in_executor
EnterSlot(j, s) ==
    /\ sem_value' = s.value
    /\ sem_waiters' = s.waiters
    /\ active_requests' = active_requests + 1
    /\ active_tasks' = active_tasks + 1
    /\ max_active_tasks' = Max(max_active_tasks, active_tasks + 1)
    /\ acquired' = [acquired EXCEPT ![j] = @ + 1]
    /\ offloaded' = [offloaded EXCEPT ![j] = @ + 1]

\* the exit of `async with self.semaphore` (Semaphore.release) when the
\* wrapped call ended by `how`: "return", "raise" or "cancel"
ReleaseOnReturnOnly(s, how) == IF how = "return" THEN release(s) ELSE s
__aexit__(s, how) == release(s)

\* the `finally` of process_request and the exit of `async with`
ExitSlot(j, how) ==
    /\ active_requests' = active_requests - 1
    /\ LET s == __aexit__(Sem(sem_value, sem_waiters), how)
       IN  sem_value' = s.value /\ sem_waiters' = s.waiters
    /\ released' = [released EXCEPT ![j] = @ + 1]

\* ------------------------------------------------------------ handle_image
\* a photo arrives: increment_request, then the await of check_rate_limit
Start(j, p) ==
    /\ UNCHANGED <<sweep_vars, health_vars, svc_vars, rate_vars>>
    /\ pc[j] = "idle"
    /\ \A i \in Jobs : i < j => pc[i] # "idle"   \* jobs are numbered as they arrive
    /\ photo' = [photo EXCEPT ![j] = p]
    /\ request_count' = request_count + 1
    /\ monitor_active' = monitor_active + 1
    /\ pc' = [pc EXCEPT ![j] = "rate_limit"]
    /\ UNCHANGED <<now, input_file, output_file, temp_files, redis, cache_key,
                   result_bytes, colorized_image, lb_vars, active_tasks,
                   max_active_tasks, cache_hits, cache_misses, error_count,
                   obs_vars>>

\* check_rate_limit answers; a refused job replies and returns, an admitted
\* one creates and registers its two temporary files and awaits the download
RateLimit(j, allowed) ==
    /\ UNCHANGED <<sweep_vars, health_vars, svc_vars, rate_vars>>
    /\ pc[j] = "rate_limit"
    /\ IF allowed
       THEN /\ input_file' = [input_file EXCEPT ![j] = Empty]
            /\ output_file' = [output_file EXCEPT ![j] = Empty]
            /\ temp_files' = temp_files \cup {InPath(j), OutPath(j)}
            /\ pc' = [pc EXCEPT ![j] = "download"]
            /\ UNCHANGED <<monitor_active, error_count, outcome, cache_key,
                           result_bytes, colorized_image>>
       ELSE /\ Leave(j, "rate_limited", 1, 0)
            /\ UNCHANGED <<input_file, output_file, temp_files>>
    /\ UNCHANGED <<now, photo, redis, lb_vars, active_tasks, max_active_tasks,
                   cache_hits, cache_misses, request_count, arrival, acquired,
                   released, offloaded, lookup_log, store_log, last_sent,
                   last_good, hash_log>>

\* one more digest computed for the bytes `data`
Hashed(log, data, digest) ==
    IF data \notin Hashable THEN log
    ELSE IF log[data].seen
         THEN [log EXCEPT ![data].last = digest,
                          ![data].later = @ \/ log[data].aged]
         ELSE [log EXCEPT ![data] = [seen |-> TRUE, first |-> digest,
                  last |-> digest, aged |-> FALSE, later |-> FALSE]]

\* bot.download has written the photo; validate_image, resize_image_if_needed
\* and get_cached_result up to `await self.redis.get`
Download(j) ==
    /\ UNCHANGED <<sweep_vars, health_vars, svc_vars, rate_vars>>
    /\ pc[j] = "download"
    /\ IF validate_image(photo[j])
       THEN LET data == resize_image_if_needed(photo[j])
                image_hash == _get_image_hash(data, now)
            IN  /\ input_file' = [input_file EXCEPT ![j] = data]
                /\ cache_key' = [cache_key EXCEPT ![j] = CacheKey(image_hash)]
                /\ hash_log' = Hashed(hash_log, data, image_hash)
                /\ pc' = [pc EXCEPT ![j] = "lookup"]
                /\ UNCHANGED <<output_file, temp_files, monitor_active,
                               error_count, outcome, result_bytes,
                               colorized_image>>
       ELSE /\ Fails(j, "invalid")
            /\ UNCHANGED hash_log
    /\ UNCHANGED <<now, photo, redis, lb_vars, active_tasks, max_active_tasks,
                   cache_hits, cache_misses, request_count, arrival, acquired,
                   released, offloaded, lookup_log, store_log, last_sent,
                   last_good>>

\* ImageCache.get_cached_result after `await self.redis.get(cache_key)`:
\* `up` is whether the call reached the store; an exception is caught and
\* turned into None
get_cached_result_raises(up) == FALSE
get_cached_result(up, db, key, t) ==
    IF ~up THEN None
    ELSE LET result == RedisGet(db, key, t)
         IN  IF Truthy(result) THEN result ELSE None

\* the `if cached_result:` of handle_image
NeverCached(cached_result) == FALSE
UseCached(cached_result) == Truthy(cached_result)

\* Semaphore.acquire() returns without waiting
AlwaysFree(s) == TRUE
FreeIfNoWaiters(s) == Len(s.waiters) = 0
CanAcquire(s) == ~Locked(s)

NextArrival == Cardinality({i \in Jobs : arrival[i] # 0}) + 1

Live(entry) == entry.seen /\ now < entry.exp

\* redis.get answers: get_cached_result returns; on a hit the cached bytes
\* are sent and the job returns, on a miss it calls process_request
CacheGet(j, up) ==
    /\ UNCHANGED <<sweep_vars, health_vars, svc_vars, rate_vars>>
    /\ pc[j] = "lookup"
    /\ LET data == resize_image_if_needed(photo[j])
           cached_result == get_cached_result(up, redis, cache_key[j], now)
           s == Sem(sem_value, sem_waiters)
       IN
        /\ lookup_log' = [lookup_log EXCEPT ![j] =
               [seen |-> TRUE, data |-> data, up |-> up,
                result |-> cached_result,
                sent_live |-> Live(last_sent[data]),
                good |-> last_good[data].out,
                good_live |-> Live(last_good[data])]]
        /\ cache_hits' = IF up /\ Truthy(cached_result)
                         THEN cache_hits + 1 ELSE cache_hits
        /\ cache_misses' = IF up /\ ~Truthy(cached_result)
                           THEN cache_misses + 1 ELSE cache_misses
        /\ IF get_cached_result_raises(up)
           THEN /\ Fails(j, "cache_error")
                /\ UNCHANGED <<lb_vars, active_tasks, max_active_tasks,
                               arrival, acquired, offloaded>>
           ELSE IF UseCached(cached_result)
           THEN /\ RemoveTempFiles(j)
                /\ Left(j, "cached", 2, 0, FALSE)
                /\ UNCHANGED <<lb_vars, active_tasks, max_active_tasks,
                               arrival, acquired, offloaded>>
           ELSE /\ arrival' = [arrival EXCEPT ![j] = NextArrival]
                /\ UNCHANGED <<input_file, output_file, temp_files,
                               monitor_active, error_count, outcome,
                               cache_key, result_bytes, colorized_image>>
                /\ IF CanAcquire(s)
                   THEN /\ EnterSlot(j, Sem(s.value - 1, s.waiters))
                        /\ pc' = [pc EXCEPT ![j] = "running"]
                   ELSE /\ sem_waiters' =
                              Append(sem_waiters, [job |-> j, done |-> FALSE])
                        /\ pc' = [pc EXCEPT ![j] = "waiting"]
                        /\ UNCHANGED <<sem_value, active_requests, active_tasks,
                                       max_active_tasks, acquired, offloaded>>
    /\ UNCHANGED <<now, photo, redis, request_count, released, store_log,
                   last_sent, last_good, hash_log>>

\* a waiter whose future was set resumes inside Semaphore.acquire(): it
\* leaves the deque, wakes whoever a free permit allows, and enters the slot
Resume(j) ==
    /\ UNCHANGED <<sweep_vars, health_vars, svc_vars, rate_vars>>
    /\ pc[j] = "waiting"
    /\ FirstDone(sem_waiters, j)
    /\ EnterSlot(j, WakeWhilePermits(Sem(sem_value, RemoveWaiter(sem_waiters, j))))
    /\ pc' = [pc EXCEPT ![j] = "running"]
    /\ UNCHANGED <<now, photo, input_file, output_file, temp_files, redis,
                   cache_key, result_bytes, colorized_image, cache_hits,
                   cache_misses, request_count, monitor_active, error_count,
                   arrival, released, lookup_log, store_log, last_sent,
                   last_good, hash_log, outcome>>

\* the executor thread runs model.colorize(temp_input_path): cv2.imread of a
\* missing file raises ValueError, and the network may fail on any image
colorize(data, ok) ==
    IF data = NoFile \/ ~ok THEN Raised ELSE <<"bgr">> \o data

WorkerRun(j, ok) ==
    /\ UNCHANGED <<sweep_vars, health_vars, svc_vars, rate_vars>>
    /\ pc[j] = "running"
    /\ colorized_image' = [colorized_image EXCEPT ![j] = colorize(input_file[j], ok)]
    /\ pc' = [pc EXCEPT ![j] = "worker_done"]
    /\ UNCHANGED <<now, photo, input_file, output_file, temp_files, redis,
                   cache_key, result_bytes, lb_vars, stat_vars, obs_vars>>

\* ImageCache.cache_result after `await self.redis.setex(...)`: an exception
\* is caught and logged
SetRaises(up) == ~up
cache_result_raises(up) == FALSE

\* what process_image_async hands to its awaiting caller when the thread
\* ended with `image`: the result, or the exception raised again
SwallowsError(image) == IF image = Raised THEN None ELSE image
process_image_async(image) == image

\* what process_request hands on from the wrapped call
ReturnsNoneOnError(image) == IF image = Raised THEN None ELSE image
process_request(image) == image

\* run_in_executor delivers the thread's result or exception to the loop:
\* process_image_async and process_request unwind, and on success the job
\* writes the output file (`wrote`: cv2.imwrite succeeded), reads it back
\* and calls cache_result up to `await self.redis.setex`
Finish(j, wrote) ==
    /\ UNCHANGED <<sweep_vars, health_vars, svc_vars, rate_vars>>
    /\ pc[j] = "worker_done"
    /\ active_tasks' = active_tasks - 1
    /\ ExitSlot(j, IF colorized_image[j] = Raised THEN "raise" ELSE "return")
    /\ LET got == process_request(process_image_async(colorized_image[j]))
           out == IF wrote THEN imwrite(got) ELSE output_file[j]
           image_hash == _get_image_hash(input_file[j], now)
       IN  IF got = Raised
           THEN /\ ~wrote
                /\ Fails(j, "error")
                /\ UNCHANGED <<store_log, hash_log>>
           ELSE IF out = NoFile
           THEN /\ Fails(j, "no_output")
                /\ UNCHANGED <<store_log, hash_log>>
           ELSE /\ output_file' = [output_file EXCEPT ![j] = out]
                /\ result_bytes' = [result_bytes EXCEPT ![j] = out]
                /\ cache_key' = [cache_key EXCEPT ![j] = CacheKey(image_hash)]
                /\ hash_log' = Hashed(hash_log, input_file[j], image_hash)
                /\ store_log' = [store_log EXCEPT ![j].data = input_file[j]]
                /\ pc' = [pc EXCEPT ![j] = "store"]
                /\ UNCHANGED <<input_file, temp_files, monitor_active,
                               error_count, outcome, colorized_image>>
    /\ UNCHANGED <<now, photo, redis, max_active_tasks, cache_hits,
                   cache_misses, request_count, arrival, acquired, offloaded,
                   lookup_log, last_sent, last_good>>

\* the other cache_result calls in flight for the cache key of job j
Rivals(j) ==
    {k \in Jobs \ {j} : pc[k] = "store" /\ cache_key[k] = cache_key[j]}

\* redis.setex answers: cache_result returns, the result is sent with
\* answer_photo(FSInputFile(temp_output_path)) and the job ends
CacheStore(j, up) ==
    /\ UNCHANGED <<sweep_vars, health_vars, svc_vars, rate_vars>>
    /\ pc[j] = "store"
    /\ LET data == store_log[j].data
           sent == resize_image_if_needed(photo[j])
           entry == [seen |-> TRUE, out |-> result_bytes[j], exp |-> now + Ttl]
       IN
        /\ redis' = IF up
                    THEN RedisSetex(redis, cache_key[j], Ttl, result_bytes[j], now)
                    ELSE redis
        /\ store_log' = [k \in Jobs |->
               IF k = j
               THEN [store_log[j] EXCEPT !.seen = TRUE, !.up = up,
                                         !.raced = @ \/ Rivals(j) # {}]
               ELSE IF k \in Rivals(j)
               THEN [store_log[k] EXCEPT !.raced = TRUE]
               ELSE store_log[k]]
        /\ last_sent' = IF up /\ output_file[j] \notin {NoFile, Empty}
                        THEN [last_sent EXCEPT ![sent] = entry] ELSE last_sent
        /\ last_good' = IF data \in Hashable /\ up
                        THEN [last_good EXCEPT ![data] = entry] ELSE last_good
        /\ RemoveTempFiles(j)
        /\ IF cache_result_raises(up) THEN Left(j, "cache_error", 1, 1, TRUE)
           ELSE IF output_file[j] \in {NoFile, Empty}
           THEN Left(j, "undelivered", 1, 1, TRUE)
           ELSE Left(j, "success", 1, 0, FALSE)
    /\ UNCHANGED <<now, photo, lb_vars, active_tasks, max_active_tasks,
                   cache_hits, cache_misses, request_count, arrival, acquired,
                   released, offloaded, lookup_log, hash_log>>

\* ---------------------------------------------------------- cancellation
\* Semaphore.acquire() of a cancelled waiter: the future leaves the deque, a
\* permit it had been given goes back, and the permits wake who they can
CancelLosesPermit(s, j) == Sem(s.value, RemoveWaiter(s.waiters, j))
CancelAcquire(s, j) ==
    LET given == WaiterOf(s.waiters, j).done
        w == RemoveWaiter(s.waiters, j)
    IN  WakeWhilePermits(Sem(IF given THEN s.value + 1 ELSE s.value, w))

\* the task of job j is cancelled at the await it is suspended at:
\* CancelledError unwinds through every `finally`, and no `except Exception`
\* catches it
Cancel(j) ==
    /\ UNCHANGED <<sweep_vars, health_vars, svc_vars, rate_vars>>
    /\ pc[j] \in {"rate_limit", "download", "lookup", "waiting", "running",
                  "worker_done", "store"}
    /\ IF pc[j] = "waiting" /\ WaiterOf(sem_waiters, j).done
       THEN FirstDone(sem_waiters, j) ELSE TRUE
    /\ IF pc[j] = "rate_limit"
       THEN /\ UNCHANGED <<input_file, output_file, temp_files>>
            /\ Leave(j, "cancelled", 1, 0)
       ELSE /\ RemoveTempFiles(j)
            /\ Left(j, "cancelled", 1, 0, FALSE)
    /\ IF pc[j] = "waiting"
       THEN /\ LET s == CancelAcquire(Sem(sem_value, sem_waiters), j)
               IN  sem_value' = s.value /\ sem_waiters' = s.waiters
            /\ UNCHANGED <<active_requests, released>>
       ELSE IF pc[j] \in {"running", "worker_done"}
       THEN ExitSlot(j, "cancel")
       ELSE UNCHANGED <<lb_vars, released>>
    /\ UNCHANGED <<now, photo, redis, active_tasks, max_active_tasks,
                   cache_hits, cache_misses, request_count, arrival, acquired,
                   offloaded, lookup_log, store_log, last_sent, last_good,
                   hash_log>>

\* ------------------------------------------------------- background, clock
\* ResourceManager.cleanup_temp_files: each tracked path is unlinked when it
\* exists and then discarded; an unlink that raises is logged and skips the
\* discard of that path alone.  The coroutine never awaits, so it is one step.
StopAtFailure(tracked) ==
    IF \E p \in tracked : UnlinkRaises(p) THEN tracked ELSE {}
Remaining(tracked) == {p \in tracked : UnlinkRaises(p)}

\* the `except Exception` inside the loop lets no failure out
SweepRaises(failed) == FALSE

cleanup_temp_files ==
    LET failed == {p \in temp_files : UnlinkRaises(p)}
        left == Remaining(temp_files)
        swept == temp_files \ left
    IN  /\ input_file' = [j \in Jobs |->
               IF InPath(j) \in swept THEN NoFile ELSE input_file[j]]
        /\ output_file' = [j \in Jobs |->
               IF OutPath(j) \in swept THEN NoFile ELSE output_file[j]]
        /\ temp_files' = left
        /\ sweep_log' =
               [failed |-> failed,
                missing |-> \E p \in temp_files : ~Exists(p),
                some |-> \E p \in swept : Exists(p),
                left |-> left,
                gone |-> \A p \in temp_files \ failed :
                            (IF p[2] = "in" THEN input_file'[p[1]]
                             ELSE output_file'[p[1]]) = NoFile,
                raised |-> SweepRaises(failed)]

\* ResourceManager.check_memory_usage
memory_limit_mb == 2048
check_memory_usage(memory_mb) == memory_mb < memory_limit_mb

\* whether the loop goes on after a tick that ended by `path`
DiesOnError(path) == path # "error"
LoopSurvives(path) == TRUE

\* one tick of ResourceManager.periodic_cleanup after its sleep: `probe_ok`
\* is whether psutil answered with `memory_mb`; force_cleanup is the sweep
\* and gc.collect(); what raises is caught and logged by the loop
periodic_cleanup(memory_mb, probe_ok) ==
    /\ cleaner.alive
    /\ LET path == IF ~probe_ok \/ SweepRaises(Remaining(temp_files))
                   THEN "error"
                   ELSE IF check_memory_usage(memory_mb) THEN "routine"
                   ELSE "aggressive"
       IN  /\ IF probe_ok
              THEN cleanup_temp_files
              ELSE UNCHANGED <<input_file, output_file, temp_files, sweep_log>>
           /\ cleaner' = [seen |-> TRUE,
                          after_error |-> cleaner.path = "error",
                          memory_mb |-> IF probe_ok THEN memory_mb ELSE 0,
                          path |-> path,
                          gc |-> path = "aggressive",
                          swept |-> probe_ok,
                          alive |-> LoopSurvives(path)]
    /\ UNCHANGED <<now, pc, photo, redis, cache_key, result_bytes,
                   colorized_image, lb_vars, stat_vars, obs_vars, stuck,
                   health_vars, svc_vars, rate_vars>>

\* ------------------------------------------------------- the file system
\* something outside the bot makes the unlink of a path fail (the file is
\* held open or protected), or stops doing so
Hold(p) ==
    /\ Cardinality(stuck) < MaxStuck
    /\ p \notin stuck
    /\ stuck' = stuck \cup {p}
    /\ UNCHANGED <<prog_vars, lb_vars, stat_vars, obs_vars, cleaner, sweep_log,
                   health_vars, svc_vars, rate_vars>>

LetGo(p) ==
    /\ p \in stuck
    /\ stuck' = stuck \ {p}
    /\ UNCHANGED <<prog_vars, lb_vars, stat_vars, obs_vars, cleaner, sweep_log,
                   health_vars, svc_vars, rate_vars>>

\* something outside the bot deletes a tracked file
ExternalDelete(p) ==
    /\ p \in temp_files /\ Exists(p) /\ p \notin stuck
    /\ input_file' = [j \in Jobs |->
           IF InPath(j) = p THEN NoFile ELSE input_file[j]]
    /\ output_file' = [j \in Jobs |->
           IF OutPath(j) = p THEN NoFile ELSE output_file[j]]
    /\ UNCHANGED <<now, pc, photo, temp_files, redis, cache_key, result_bytes,
                   colorized_image, lb_vars, stat_vars, obs_vars, sweep_vars,
                   health_vars, svc_vars, rate_vars>>

\* an observed store whose time to live is over at time t
Lapse(log, t) ==
    [b \in Hashable |-> IF log[b].seen /\ log[b].exp <= t
                        THEN [log[b] EXCEPT !.exp = 0] ELSE log[b]]

\* time passes; the store forgets the entries whose time to live is over
Tick ==
    /\ UNCHANGED <<sweep_vars, health_vars, svc_vars, rate_vars>>
    /\ now < MaxTime
    /\ now' = now + 1
    /\ redis' = RedisExpire(redis, now + 1)
    /\ last_sent' = Lapse(last_sent, now + 1)
    /\ last_good' = Lapse(last_good, now + 1)
    /\ hash_log' = [b \in Hashable |->
                      IF hash_log[b].seen THEN [hash_log[b] EXCEPT !.aged = TRUE]
                      ELSE hash_log[b]]
    /\ UNCHANGED <<pc, photo, input_file, output_file, temp_files, cache_key,
                   result_bytes, colorized_image, lb_vars, stat_vars, arrival,
                   acquired, released, offloaded, lookup_log, store_log,
                   outcome>>

\* ------------------------------------------------------- health checks
\* what a probe can answer: the database has no pool, or its query works
\* or raises; the ping works or raises; the network is loaded or not
Ok == <<"ok">>
NoPool == <<"no pool">>
Raise(reason) == <<"raise", reason>>
DbOutcomes == {Ok, NoPool, Raise("connection refused")}
PingOutcomes == {Ok, Raise("timeout")}
NetOutcomes == {Ok, <<"not loaded">>}

\* psutil's percentages, around the two thresholds of check_health
WarnAt == 90
CriticalAbove == 95
Percents == {50, WarnAt, CriticalAbove, CriticalAbove + 1}

\* a component's status string
Healthy == <<"healthy">>
Unhealthy(reason) == <<"unhealthy", reason>>

database_status(db) ==
    IF db = Ok THEN Healthy
    ELSE IF db = NoPool THEN Unhealthy("no connection")
    ELSE Unhealthy(db[2])
HealthyRegardless(ping) == Healthy
redis_status(ping) == IF ping = Ok THEN Healthy ELSE Unhealthy(ping[2])
model_status(net) ==
    IF net = Ok THEN Healthy ELSE Unhealthy("model not loaded")
system_status(cpu, mem) ==
    IF cpu < WarnAt /\ mem < WarnAt THEN "healthy" ELSE "warning"

\* each probe that fails sets overall_status to 'degraded'; the resource
\* readings override it last
Demote(overall, status) == IF status = Healthy THEN overall ELSE "degraded"
CriticalAtThreshold(database, redis_st, model, cpu, mem) ==
    IF cpu >= CriticalAbove \/ mem >= CriticalAbove THEN "critical"
    ELSE Demote(Demote(Demote("healthy", database), redis_st), model)
overall_status(database, redis_st, model, cpu, mem) ==
    IF cpu > CriticalAbove \/ mem > CriticalAbove THEN "critical"
    ELSE Demote(Demote(Demote("healthy", database), redis_st), model)

\* the dictionary check_health builds and returns
Snapshot(database, ping, net, cpu, mem) ==
    [overall_status |-> overall_status(database, redis_status(ping),
                                       model_status(net), cpu, mem),
     components |->
        [database |-> database,
         redis |-> redis_status(ping),
         model |-> model_status(net),
         system |-> [cpu_percent |-> cpu, memory_percent |-> mem,
                     status |-> system_status(cpu, mem)]]]

\* `self.health_status = health_status['overall_status']`
KeepWorst(prev, overall) ==
    IF prev = "critical" \/ (prev = "degraded" /\ overall = "healthy")
    THEN prev ELSE overall
Assigned(prev, overall) == overall

\* whether start_health_monitoring goes on after a check that raised or not
StopsOnRaise(raised) == ~raised
MonitorSurvives(raised) == TRUE

\* an admin's /health command reaches `await check_health()`
HealthCommand ==
    /\ checker["command"].pc = "idle"
    /\ checker' = [checker EXCEPT !["command"].pc = "database"]
    /\ UNCHANGED <<prog_vars, lb_vars, stat_vars, obs_vars, sweep_vars, svc_vars, rate_vars,
                   health_status, last_health_check, health_loop, health_log>>

\* check_health up to `await self.redis.ping()`: the database probe answered
DbProbe(c, db) ==
    /\ checker[c].pc = "database"
    /\ checker' = [checker EXCEPT ![c] =
                      [pc |-> "redis", db |-> db,
                       database |-> database_status(db)]]
    /\ UNCHANGED <<prog_vars, lb_vars, stat_vars, obs_vars, sweep_vars, svc_vars, rate_vars,
                   health_status, last_health_check, health_loop, health_log>>

\* the caller of check_health goes on: the loop sleeps (after logging what
\* was raised), the command replies; `raised`: check_health raised
Returned(c, raised) ==
    /\ checker' = [checker EXCEPT ![c] =
                      [pc |-> IF c = "monitor" THEN "sleep" ELSE "idle",
                       db |-> None, database |-> None]]
    /\ health_loop' = IF c = "monitor"
                      THEN [raised |-> raised,
                            after_raise |-> health_loop.raised,
                            alive |-> MonitorSurvives(raised)]
                      ELSE health_loop

\* check_health from the answer of the ping to its end: the model probe,
\* psutil's readings and the two assignments
check_health(c, ping, net, cpu, mem) ==
    /\ checker[c].pc = "redis"
    /\ last_health_check' = Snapshot(checker[c].database, ping, net, cpu, mem)
    /\ health_status' =
           Assigned(health_status, last_health_check'.overall_status)
    /\ health_log' = [seen |-> TRUE, prev |-> health_status,
                      db |-> checker[c].db, ping |-> ping, net |-> net,
                      cpu |-> cpu, mem |-> mem]
    /\ Returned(c, FALSE)
    /\ UNCHANGED <<prog_vars, lb_vars, stat_vars, obs_vars, sweep_vars, svc_vars, rate_vars>>

\* check_health when psutil raises after the ping answered: nothing is
\* assigned and the exception reaches the caller
CheckRaises(c) ==
    /\ checker[c].pc = "redis"
    /\ Returned(c, TRUE)
    /\ UNCHANGED <<prog_vars, lb_vars, stat_vars, obs_vars, sweep_vars, svc_vars, rate_vars,
                   last_health_check, health_status, health_log>>

\* start_health_monitoring: `await asyncio.sleep(interval)` is over and the
\* loop calls check_health again
start_health_monitoring ==
    /\ health_loop.alive
    /\ checker["monitor"].pc = "sleep"
    /\ checker' = [checker EXCEPT !["monitor"].pc = "database"]
    /\ UNCHANGED <<prog_vars, lb_vars, stat_vars, obs_vars, sweep_vars, svc_vars, rate_vars,
                   health_status, last_health_check, health_loop, health_log>>

\* ------------------------------------------------------- metrics
\* a sample as record_metric builds it (tags left out); `seq` is no part of
\* it: it numbers the entries in the order the store received them
MetricNames == {"processing_time", "request_count"}
MetricValues == {1, 2}
Sample(name, value, t) ==
    [name |-> name, value |-> value, timestamp |-> t, seq |-> 0]

\* json.dumps of a sample, a text that json.loads cannot parse, and
\* json.loads
dumps(sample) == <<"json", sample>>
Garbage == <<"garbage", NoSample>>
LoadsRaises(text) == text[1] # "json"
loads(text) == text[2]
Stamped(text, n) == <<text[1], [text[2] EXCEPT !.seq = n]>>

\* redis LPUSH, LTRIM key start stop (both ends included, from 0) and
\* LRANGE key 0 -1, which leaves the list as it is
lpush(list, text) == <<text>> \o list
ltrim(list, start, stop) ==
    SubSeq(list, start + 1, IF stop + 1 < Len(list) THEN stop + 1 ELSE Len(list))
Drained(list) == <<>>
AfterRange(list) == list

InFlightPushes == Cardinality({c \in Recorders : recorder[c].pc = "lpush"})

\* record_metric up to `await self.redis.lpush(...)`
record_metric(c, name, value) ==
    /\ recorder[c].pc = "idle"
    /\ pushes + InFlightPushes < MaxPushes
    /\ recorder' = [recorder EXCEPT ![c] =
           [pc |-> "lpush", text |-> dumps(Sample(name, value, now)),
            done |-> "none"]]
    /\ UNCHANGED <<prog_vars, lb_vars, stat_vars, obs_vars, sweep_vars,
                   health_vars, metrics, reader, pushes, report, pools,
                   service>>
    /\ UNCHANGED rate_vars

\* the store answers the lpush (`up`: it was reached): record_metric goes on
\* to `await self.redis.ltrim(...)`, or logs the exception and returns
Lpush(c, up) ==
    /\ recorder[c].pc = "lpush"
    /\ IF up
       THEN /\ metrics' = lpush(metrics, Stamped(recorder[c].text, pushes + 1))
            /\ pushes' = pushes + 1
            /\ recorder' = [recorder EXCEPT ![c].pc = "ltrim"]
       ELSE /\ recorder' = [recorder EXCEPT ![c] = [Idle EXCEPT !.done = "error"]]
            /\ UNCHANGED <<metrics, pushes>>
    /\ UNCHANGED <<prog_vars, lb_vars, stat_vars, obs_vars, sweep_vars,
                   health_vars, reader, report, pools, service>>
    /\ UNCHANGED rate_vars

\* the store answers the ltrim and record_metric returns
Ltrim(c, up) ==
    /\ recorder[c].pc = "ltrim"
    /\ metrics' = IF up THEN ltrim(metrics, 0, MetricsCap) ELSE metrics
    /\ recorder' = [recorder EXCEPT ![c] =
           [Idle EXCEPT !.done = IF up THEN "ok" ELSE "error"]]
    /\ UNCHANGED <<prog_vars, lb_vars, stat_vars, obs_vars, sweep_vars,
                   health_vars, reader, pushes, report, pools, service>>
    /\ UNCHANGED rate_vars

\* something else pushes a text that is no sample to the same key
ForeignPush ==
    /\ pushes + InFlightPushes < MaxPushes
    /\ metrics' = lpush(metrics, Stamped(Garbage, pushes + 1))
    /\ pushes' = pushes + 1
    /\ UNCHANGED <<prog_vars, lb_vars, stat_vars, obs_vars, sweep_vars,
                   health_vars, recorder, reader, report, pools, service>>
    /\ UNCHANGED rate_vars

\* the test of get_metrics_summary on a sample's timestamp
NotOlder(timestamp, cutoff_time) == timestamp >= cutoff_time
Newer(timestamp, cutoff_time) == timestamp > cutoff_time

\* the loop of get_metrics_summary: entries that do not parse are skipped
Recent(list, cutoff_time) ==
    SelectSeq(list, LAMBDA text :
        ~LoadsRaises(text) /\ Newer(loads(text).timestamp, cutoff_time))
Named(list, name) == SelectSeq(list, LAMBDA text : loads(text).name = name)

RECURSIVE SumValues(_)
SumValues(list) ==
    IF list = <<>> THEN 0 ELSE loads(Head(list)).value + SumValues(Tail(list))
RECURSIVE MaxValues(_)
MaxValues(list) ==
    IF list = <<>> THEN 0
    ELSE Max(loads(Head(list)).value, MaxValues(Tail(list)))

\* the dictionary get_metrics_summary returns; `{}` is EmptySummary and the
\* average is kept as the pair (sum, count) it is the quotient of
EmptySummary == [empty |-> TRUE, avg_processing_time |-> <<0, 1>>,
                 max_processing_time |-> 0, total_requests |-> 0,
                 metrics_count |-> 0]
Summary(list, cutoff_time) ==
    LET recent_metrics == Recent(list, cutoff_time)
        processing_times == Named(recent_metrics, "processing_time")
        request_counts == Named(recent_metrics, "request_count")
    IN  IF recent_metrics = <<>> THEN EmptySummary
        ELSE [empty |-> FALSE,
              avg_processing_time |->
                  IF processing_times # <<>>
                  THEN <<SumValues(processing_times), Len(processing_times)>>
                  ELSE <<0, 1>>,
              max_processing_time |-> MaxValues(processing_times),
              total_requests |-> SumValues(request_counts),
              metrics_count |-> Len(recent_metrics)]

\* the windows asked for, in clock ticks
Windows == {1, 2}

\* get_metrics_summary(hours) up to `await self.redis.lrange(...)`; one
\* behaviour follows one report
get_metrics_summary(hours) ==
    /\ reader.pc = "idle"
    /\ report.op = "none"
    /\ reader' = [pc |-> "lrange", cutoff_time |-> now - hours]
    /\ UNCHANGED <<prog_vars, lb_vars, stat_vars, obs_vars, sweep_vars,
                   health_vars, metrics, recorder, pushes, report, pools,
                   service>>
    /\ UNCHANGED rate_vars

\* the store answers the lrange and get_metrics_summary returns its
\* summary, or `{}` when the store could not be reached
SummaryReturns(up) ==
    /\ reader.pc = "lrange"
    /\ reader' = [reader EXCEPT !.pc = "idle"]
    /\ metrics' = IF up THEN AfterRange(metrics) ELSE metrics
    /\ report' = [op |-> "get_metrics_summary",
                  arg |-> [cutoff_time |-> reader.cutoff_time, up |-> up],
                  log |-> metrics,
                  value |-> IF up THEN Summary(metrics, reader.cutoff_time)
                            ELSE EmptySummary]
    /\ UNCHANGED <<prog_vars, lb_vars, stat_vars, obs_vars, sweep_vars,
                   health_vars, recorder, pushes, pools, service>>
    /\ UNCHANGED rate_vars

\* ------------------------------------------------------- reporting
\* PerformanceMonitor.get_system_stats under a cpu reading: a dictionary of
\* the monitor's counters; the error rate is kept as the pair it is the
\* quotient of
get_system_stats(cpu) ==
    /\ report.op = "none"
    /\ report' = [op |-> "get_system_stats",
                  arg |-> [cutoff_time |-> 0, up |-> TRUE],
                  log |-> <<>>,
                  value |-> [cpu_percent |-> cpu,
                             active_requests |-> monitor_active,
                             total_requests |-> request_count,
                             error_rate |->
                                 <<error_count, Max(request_count, 1)>>]]
    /\ UNCHANGED <<prog_vars, lb_vars, stat_vars, obs_vars, sweep_vars,
                   health_vars, metrics, recorder, reader, pushes, pools,
                   service>>
    /\ UNCHANGED rate_vars

\* ImageCache.get_cache_stats; the hit rate is kept as the pair it is the
\* quotient of
get_cache_stats ==
    /\ report.op = "none"
    /\ LET total_requests == cache_hits + cache_misses
       IN  report' = [op |-> "get_cache_stats",
                      arg |-> [cutoff_time |-> 0, up |-> TRUE],
                      log |-> <<>>,
                      value |-> [cache_hits |-> cache_hits,
                                 cache_misses |-> cache_misses,
                                 hit_rate |->
                                     IF total_requests > 0
                                     THEN <<cache_hits * 100, total_requests>>
                                     ELSE <<0, 1>>,
                                 total_requests |-> total_requests]]
    /\ UNCHANGED <<prog_vars, lb_vars, stat_vars, obs_vars, sweep_vars,
                   health_vars, metrics, recorder, reader, pushes, pools,
                   service>>
    /\ UNCHANGED rate_vars

\* ------------------------------------------------------- service lifecycle
\* `except Exception: log; raise` of init_pools and of init_services: the
\* caller sees the exception; and a handler that logs without raising
LoggedOnly(failed) == FALSE
Reraised(failed) == failed

\* what creating the pools can fail at
PoolFailures == {"none", "db_pool", "redis_pool"}

\* start_polling calls init_services, which calls init_pools: create_pool,
\* then ConnectionPool.from_url.  An exception is re-raised by init_pools,
\* re-raised by init_services, logged by start_polling, whose finally
\* clause calls close_services (no executor to shut down yet).
init_pools(fail) ==
    /\ service.phase = "new"
    /\ pools' = [db_pool |-> IF fail = "db_pool" THEN "none" ELSE "open",
                 redis_pool |-> IF fail = "none" THEN "open" ELSE "none"]
    /\ service' =
           IF Reraised(fail # "none")
           THEN [service EXCEPT !.phase = "close_pools",
                                !.pool_failure = fail # "none",
                                !.init_pools = "raised",
                                !.init_services = "raised"]
           ELSE [service EXCEPT !.phase = "init_services",
                                !.pool_failure = fail # "none",
                                !.init_pools = "ok"]
    /\ UNCHANGED <<prog_vars, lb_vars, stat_vars, obs_vars, sweep_vars,
                   health_vars, metrics, recorder, reader, pushes, report>>
    /\ UNCHANGED rate_vars

\* the rest of init_services (`ok`: the model loads, the database
\* initializes and redis answers the ping): the components are created,
\* the background tasks are created and start_polling starts the dispatcher
init_services(ok) ==
    /\ service.phase = "init_services"
    /\ IF ok
       THEN /\ service' = [service EXCEPT !.phase = "polling",
                                          !.init_services = "ok",
                                          !.components = TRUE,
                                          !.polled = TRUE]
            /\ checker' = [checker EXCEPT !["monitor"].pc = "database"]
       ELSE /\ service' = [service EXCEPT !.phase = "close_pools",
                                          !.init_services = "raised"]
            /\ UNCHANGED checker
    /\ UNCHANGED <<prog_vars, lb_vars, stat_vars, obs_vars, sweep_vars,
                   health_status, last_health_check, health_loop, health_log,
                   metrics, recorder, reader, pushes, report, pools>>
    /\ UNCHANGED rate_vars

\* dp.start_polling returns or raises, and close_services begins:
\* executor.shutdown(wait=True) returns once no transformation is running
close_services ==
    /\ service.phase = "polling"
    /\ \A j \in Jobs : pc[j] # "running"
    /\ service' = [service EXCEPT !.phase = "close_pools"]
    /\ UNCHANGED <<prog_vars, lb_vars, stat_vars, obs_vars, sweep_vars,
                   health_vars, metrics, recorder, reader, pushes, report,
                   pools>>
    /\ UNCHANGED rate_vars

\* close_pools up to the end of `await self.db_pool.close()` (`ok`: it does
\* not raise).  An exception is logged and close_pools returns; so it does
\* when there is no pool to close.
close_pools(ok) ==
    /\ service.phase = "close_pools"
    /\ pools' = IF pools.db_pool = "open" /\ ok
                THEN [pools EXCEPT !.db_pool = "closed"] ELSE pools
    /\ service' =
           IF pools.db_pool = "open" /\ ok /\ pools.redis_pool = "open"
           THEN [service EXCEPT !.phase = "disconnect"]
           ELSE [service EXCEPT !.phase = "close_rest",
                                !.close_pools = "returned"]
    /\ UNCHANGED <<prog_vars, lb_vars, stat_vars, obs_vars, sweep_vars,
                   health_vars, metrics, recorder, reader, pushes, report>>
    /\ UNCHANGED rate_vars

\* `await self.redis_pool.disconnect()` ends and close_pools returns
Disconnect(ok) ==
    /\ service.phase = "disconnect"
    /\ pools' = IF ok THEN [pools EXCEPT !.redis_pool = "closed"] ELSE pools
    /\ service' = [service EXCEPT !.phase = "close_rest",
                                  !.close_pools = "returned"]
    /\ UNCHANGED <<prog_vars, lb_vars, stat_vars, obs_vars, sweep_vars,
                   health_vars, metrics, recorder, reader, pushes, report>>
    /\ UNCHANGED rate_vars

\* the rest of close_services: db.close(), redis.close(), session.close()
CloseRest ==
    /\ service.phase = "close_rest"
    /\ service' = [service EXCEPT !.phase = "closed"]
    /\ UNCHANGED <<prog_vars, lb_vars, stat_vars, obs_vars, sweep_vars,
                   health_vars, metrics, recorder, reader, pushes, report,
                   pools>>
    /\ UNCHANGED rate_vars

\* start_polling has returned: asyncio.run cancels the tasks that are left
\* (the jobs by Cancel, the monitoring loop here) and the process ends
Exit ==
    /\ service.phase = "closed"
    /\ \A j \in Jobs : pc[j] \in {"idle", "done"}
    /\ \A c \in Recorders : recorder[c].pc = "idle"
    /\ service' = [service EXCEPT !.phase = "exited"]
    /\ checker' = [c \in Callers |->
                      [pc |-> "idle", db |-> None, database |-> None]]
    /\ UNCHANGED <<prog_vars, lb_vars, stat_vars, obs_vars, sweep_vars,
                   health_status, last_health_check, health_loop, health_log,
                   metrics, recorder, reader, pushes, report, pools>>
    /\ UNCHANGED rate_vars

\* ------------------------------------------------------- rate limiting
\* the key "rate_limit:{user_id}" of one user: its counter (0: no key) and
\* whether it carries a time to live; redis GET, SETEX key 3600 1, INCR
\* (which creates a missing key at 1 with no time to live)
KeyExists(key) == key.val > 0
get(key) == key.val
setex(key) == [val |-> 1, ttl |-> TRUE]
incr(key) == IF KeyExists(key) THEN [key EXCEPT !.val = @ + 1]
             ELSE [val |-> 1, ttl |-> FALSE]

\* check_rate_limit up to `await self.redis.get(key)` (self.redis is set
\* once init_services has run)
check_rate_limit(c) ==
    /\ limiter[c].pc = "idle"
    /\ limiter' = [limiter EXCEPT ![c] = [Resting EXCEPT !.pc = "get"]]
    /\ UNCHANGED <<prog_vars, lb_vars, stat_vars, obs_vars, sweep_vars,
                   health_vars, svc_vars, rate_key, granted>>

\* the get answers: no key, so `await self.redis.setex(key, 3600, 1)`; the
\* limit reached, so False is returned; else `await self.redis.incr(key)`
GetAnswers(c) ==
    /\ limiter[c].pc = "get"
    /\ LET current_requests == get(rate_key)
       IN  limiter' = [limiter EXCEPT ![c] =
               IF current_requests = 0
               THEN [pc |-> "setex", current_requests |-> 0,
                     returned |-> "none"]
               ELSE IF current_requests >= RATE_LIMIT_PER_USER
               THEN [pc |-> "idle", current_requests |-> current_requests,
                     returned |-> "False"]
               ELSE [pc |-> "incr", current_requests |-> current_requests,
                     returned |-> "none"]]
    /\ UNCHANGED <<prog_vars, lb_vars, stat_vars, obs_vars, sweep_vars,
                   health_vars, svc_vars, rate_key, granted>>

\* the setex answers and check_rate_limit returns True
Setex(c) ==
    /\ limiter[c].pc = "setex"
    /\ rate_key' = setex(rate_key)
    /\ limiter' = [limiter EXCEPT ![c].pc = "idle", ![c].returned = "True"]
    /\ granted' = granted + 1
    /\ UNCHANGED <<prog_vars, lb_vars, stat_vars, obs_vars, sweep_vars,
                   health_vars, svc_vars>>

\* the incr answers and check_rate_limit returns True
Incr(c) ==
    /\ limiter[c].pc = "incr"
    /\ rate_key' = incr(rate_key)
    /\ limiter' = [limiter EXCEPT ![c].pc = "idle", ![c].returned = "True"]
    /\ granted' = granted + 1
    /\ UNCHANGED <<prog_vars, lb_vars, stat_vars, obs_vars, sweep_vars,
                   health_vars, svc_vars>>

\* the key's time to live runs out: the store drops it and the window ends
Expire ==
    /\ KeyExists(rate_key) /\ rate_key.ttl
    /\ rate_key' = NoKey
    /\ granted' = 0
    /\ UNCHANGED <<prog_vars, lb_vars, stat_vars, obs_vars, sweep_vars,
                   health_vars, svc_vars, limiter>>

\* ------------------------------------------------------- specifications
\* Admission: jobs with the same photo compete for the slots while the
\* cache store answers; a job may be refused by the rate limit, the
\* transformation may fail and any task may be cancelled.
Next ==
    \/ \E j \in Jobs : Start(j, PhotoA)
    \/ \E j \in Jobs : \E allowed \in BOOLEAN : RateLimit(j, allowed)
    \/ \E j \in Jobs : Download(j)
    \/ \E j \in Jobs : CacheGet(j, TRUE)
    \/ \E j \in Jobs : Resume(j)
    \/ \E j \in Jobs : \E ok \in BOOLEAN : WorkerRun(j, ok)
    \/ \E j \in Jobs : Finish(j, colorized_image[j] # Raised)
    \/ \E j \in Jobs : CacheStore(j, TRUE)
    \/ \E j \in Jobs : Cancel(j)

Spec == Init /\ [][Next]_vars

\* Caching: a few jobs on two photos while the clock runs; the store may be
\* unreachable, cv2.imwrite may fail, and the cleanup loop may run at any time.
CacheUsers == 1..CacheJobs

CacheNext ==
    \/ \E j \in CacheUsers : \E p \in {PhotoA, PhotoB} : Start(j, p)
    \/ \E j \in CacheUsers : RateLimit(j, TRUE)
    \/ \E j \in CacheUsers : Download(j)
    \/ \E j \in CacheUsers : \E up \in BOOLEAN : CacheGet(j, up)
    \/ \E j \in CacheUsers : Resume(j)
    \/ \E j \in CacheUsers : WorkerRun(j, TRUE)
    \/ \E j \in CacheUsers : \E wrote \in BOOLEAN : Finish(j, wrote)
    \/ \E j \in CacheUsers : \E up \in BOOLEAN : CacheStore(j, up)
    \/ periodic_cleanup(memory_limit_mb - 1, TRUE)
    \/ Tick

CacheSpec == Init /\ [][CacheNext]_vars

\* Admission under load: the cache store is unreachable, so every job needs
\* a slot.
LoadNext ==
    \/ \E j \in Jobs : Start(j, PhotoA)
    \/ \E j \in Jobs : RateLimit(j, TRUE)
    \/ \E j \in Jobs : Download(j)
    \/ \E j \in Jobs : CacheGet(j, FALSE)
    \/ \E j \in Jobs : Resume(j)
    \/ \E j \in Jobs : \E ok \in BOOLEAN : WorkerRun(j, ok)
    \/ \E j \in Jobs : Finish(j, colorized_image[j] # Raised)
    \/ \E j \in Jobs : CacheStore(j, FALSE)
    \/ \E j \in Jobs : Cancel(j)

\* what the event loop and the thread pool guarantee a job in
\* process_request: a woken waiter is resumed, a submitted transformation
\* runs, and its result or exception is delivered to the awaiting coroutine
Scheduled(j) ==
    \/ Resume(j)
    \/ \E ok \in BOOLEAN : WorkerRun(j, ok)
    \/ Finish(j, colorized_image[j] # Raised)

LoadFair ==
    /\ Init /\ [][LoadNext]_vars
    /\ \A j \in Jobs : WF_vars(Scheduled(j))

\* Housekeeping: jobs run while the cleanup loop ticks under any memory
\* reading, unlinks may fail for a while, and tracked files may vanish.
Readings == {memory_limit_mb - 1, memory_limit_mb, memory_limit_mb + 1}

\* one job at a time: it never waits for a slot
SweepUsers == {1}
SweepPaths == {p \in Paths : p[1] \in SweepUsers}

SweepNext ==
    \/ \E j \in SweepUsers : \E p \in {PhotoA, PhotoX} : Start(j, p)
    \/ \E j \in SweepUsers : RateLimit(j, TRUE)
    \/ \E j \in SweepUsers : Download(j)
    \/ \E j \in SweepUsers : CacheGet(j, TRUE)
    \/ \E j \in SweepUsers : WorkerRun(j, TRUE)
    \/ \E j \in SweepUsers : Finish(j, colorized_image[j] # Raised)
    \/ \E j \in SweepUsers : CacheStore(j, TRUE)
    \/ \E j \in SweepUsers : Cancel(j)
    \/ \E m \in Readings : \E ok \in BOOLEAN : periodic_cleanup(m, ok)
    \/ \E p \in SweepPaths : Hold(p)
    \/ \E p \in SweepPaths : LetGo(p)
    \/ \E p \in SweepPaths : ExternalDelete(p)

SweepSpec == Init /\ [][SweepNext]_vars

\* what the event loop guarantees a job that was admitted: each of its
\* awaits (download, cache store, thread pool, Telegram) completes
JobStep(j) ==
    \/ RateLimit(j, TRUE)
    \/ Download(j)
    \/ CacheGet(j, TRUE)
    \/ WorkerRun(j, TRUE)
    \/ Finish(j, colorized_image[j] # Raised)
    \/ CacheStore(j, TRUE)

\* Housekeeping while the cleanup loop keeps running: its sleep ends and its
\* memory probe answers again and again, and no job hangs.
SweepFair ==
    /\ Init /\ [][SweepNext]_vars
    /\ WF_vars(\E m \in Readings : periodic_cleanup(m, TRUE))
    /\ \A j \in SweepUsers : WF_vars(JobStep(j))

\* Health: the monitoring loop and /health commands run checks whose probes
\* answer anything.
HealthNext ==
    \/ HealthCommand
    \/ \E c \in Callers : \E db \in DbOutcomes : DbProbe(c, db)
    \/ \E c \in Callers : \E ping \in PingOutcomes : \E net \in NetOutcomes :
       \E cpu \in Percents : \E mem \in Percents :
           check_health(c, ping, net, cpu, mem)
    \/ \E c \in Callers : CheckRaises(c)
    \/ start_health_monitoring

HealthSpec == Init /\ [][HealthNext]_vars

\* Monitoring: the loop alone, scheduled for ever: its probes answer and its
\* sleep ends.
MonitorNext ==
    \/ \E db \in DbOutcomes : DbProbe("monitor", db)
    \/ \E ping \in PingOutcomes : \E cpu \in Percents :
           check_health("monitor", ping, Ok, cpu, cpu)
    \/ CheckRaises("monitor")
    \/ start_health_monitoring

HealthFair == Init /\ [][MonitorNext]_vars /\ WF_vars(MonitorNext)

\* Metrics: concurrent record_metric calls, foreign entries and summaries
\* while the clock runs and the store may fail.
MetricsNext ==
    \/ \E c \in Recorders : \E v \in MetricValues :
           record_metric(c, "processing_time", v)
    \/ \E c \in Recorders : record_metric(c, "request_count", 1)
    \/ \E c \in Recorders : \E up \in BOOLEAN : Lpush(c, up)
    \/ \E c \in Recorders : \E up \in BOOLEAN : Ltrim(c, up)
    \/ ForeignPush
    \/ \E hours \in Windows : get_metrics_summary(hours)
    \/ \E up \in BOOLEAN : SummaryReturns(up)
    \/ Tick

MetricsSpec == Init /\ [][MetricsNext]_vars

\* Reporting: a job and a recorder change the state while the reporting
\* operations and /health commands are called.
ReportNext ==
    \/ \E p \in {PhotoA, PhotoX} : Start(1, p)
    \/ RateLimit(1, TRUE)
    \/ Download(1)
    \/ \E up \in BOOLEAN : CacheGet(1, up)
    \/ \E ok \in BOOLEAN : WorkerRun(1, ok)
    \/ Finish(1, colorized_image[1] # Raised)
    \/ CacheStore(1, TRUE)
    \/ record_metric(1, "request_count", 1)
    \/ Lpush(1, TRUE)
    \/ Ltrim(1, TRUE)
    \/ \E cpu \in Percents : get_system_stats(cpu)
    \/ get_cache_stats
    \/ get_metrics_summary(1)
    \/ \E up \in BOOLEAN : SummaryReturns(up)
    \/ HealthCommand
    \/ \E db \in {Ok, NoPool} : DbProbe("command", db)
    \/ \E ping \in PingOutcomes : check_health("command", ping, Ok, 50, 50)
    \/ CheckRaises("command")

ReportSpec == Init /\ [][ReportNext]_vars

\* Lifecycle: start_polling from construction to the end of the process; a
\* job, a recorder and the monitoring loop run from the moment they exist.
Alive == service.phase \notin {"exited"}
Polling == service.phase = "polling"

PoolNext ==
    \/ \E fail \in PoolFailures : init_pools(fail)
    \/ \E ok \in BOOLEAN : init_services(ok)
    \/ close_services
    \/ \E ok \in BOOLEAN : close_pools(ok)
    \/ \E ok \in BOOLEAN : Disconnect(ok)
    \/ CloseRest
    \/ Exit
    \/ Polling /\ Start(1, PhotoA)
    \/ Alive /\ RateLimit(1, TRUE)
    \/ Alive /\ Download(1)
    \/ Alive /\ \E up \in BOOLEAN : CacheGet(1, up)
    \/ Alive /\ WorkerRun(1, TRUE)
    \/ Alive /\ Finish(1, TRUE)
    \/ Alive /\ \E up \in BOOLEAN : CacheStore(1, up)
    \/ service.phase = "closed" /\ Cancel(1)
    \/ Alive /\ pc[1] = "done" /\ record_metric(1, "request_count", 1)
    \/ Alive /\ \E up \in BOOLEAN : Lpush(1, up)
    \/ Alive /\ \E up \in BOOLEAN : Ltrim(1, up)
    \/ Alive /\ DbProbe("monitor", Ok)
    \/ Alive /\ \E ping \in PingOutcomes : check_health("monitor", ping, Ok, 50, 50)
    \/ Alive /\ start_health_monitoring

PoolSpec == PoolInit /\ [][PoolNext]_vars

\* Rate limiting: one user's requests call check_rate_limit concurrently
\* while the key may expire.
RateNext ==
    \/ \E c \in Requests : check_rate_limit(c)
    \/ \E c \in Requests : GetAnswers(c)
    \/ \E c \in Requests : Setex(c)
    \/ \E c \in Requests : Incr(c)
    \/ Expire

RateSpec == Init /\ [][RateNext]_vars

\* the same with one request at a time
SerialNext ==
    \/ check_rate_limit(1)
    \/ GetAnswers(1)
    \/ Setex(1)
    \/ Incr(1)
    \/ Expire

SerialRateSpec == Init /\ [][SerialNext]_vars

\* ------------------------------------------------------------- properties
Executing == {j \in Jobs : pc[j] \in {"running", "worker_done"}}
Holding == {j \in Jobs : acquired[j] - released[j] = 1}
InFlight == {j \in Jobs : pc[j] \in {"waiting", "running", "worker_done"}}
Hit(j) == lookup_log[j].seen /\ Truthy(lookup_log[j].result)
Miss(j) == lookup_log[j].seen /\ ~Truthy(lookup_log[j].result)

\* C1: at any moment at most max_concurrent job functions execute inside
\* process_request, however many jobs were submitted.
C1_AtMostN ==
    /\ Cardinality(Executing) <= MaxConcurrent
    /\ active_requests <= MaxConcurrent

C1_Witness ==
    /\ Cardinality(Executing) = MaxConcurrent
    /\ \E j \in Jobs : pc[j] = "waiting"

\* C2: a slot entered is left exactly once on every exit path (return,
\* raise, cancellation), and with no job in flight active_requests is 0 and
\* every permit of the semaphore is free.
C2_ReleasedExactlyOnce ==
    /\ \A j \in Jobs :
         /\ acquired[j] <= 1
         /\ released[j] = IF j \in Executing THEN 0 ELSE acquired[j]
    /\ InFlight = {} =>
         /\ active_requests = 0
         /\ sem_value = MaxConcurrent
         /\ sem_waiters = <<>>

C2_Witness ==
    /\ InFlight = {}
    /\ \E i, k \in Jobs :
         /\ outcome[i] = "error" /\ released[i] = 1
         /\ outcome[k] = "cancelled" /\ released[k] = 1
    /\ sem_value = MaxConcurrent

\* C3: slots are granted in arrival order: a job never starts running in
\* process_request while a job that called it earlier is still waiting.
C3_Fifo ==
    [][\A j \in Jobs :
          pc[j] # "running" /\ pc'[j] = "running"
          => \A i \in Jobs \ {j} :
                pc[i] = "waiting" => arrival'[j] < arrival[i]]_vars

C3_Witness ==
    \E i, j \in Jobs :
        /\ pc[i] = "waiting" /\ pc[j] = "waiting"
        /\ arrival[i] < arrival[j]
        /\ WaiterOf(sem_waiters, i).done
        /\ ~WaiterOf(sem_waiters, j).done

\* C4: when every admitted job function returns or raises, every job waiting
\* for a slot gets one (unless its own task is cancelled first), and
\* the controller never ends a waiting job in any other way.
C4_NoStarvation ==
    /\ \A j \in Jobs :
          (pc[j] = "waiting") ~> (pc[j] = "running" \/ outcome[j] = "cancelled")
    /\ [][\A j \in Jobs :
             pc[j] = "waiting" =>
                \/ pc'[j] \in {"waiting", "running"}
                \/ outcome'[j] = "cancelled"]_vars

C4_Witness ==
    \E i, j \in Jobs :
        /\ outcome[i] = "error" /\ released[i] = 1
        /\ arrival[i] < arrival[j]
        /\ pc[j] = "waiting" /\ WaiterOf(sem_waiters, j).done

Processing == {j \in Jobs : pc[j] \in {"lookup", "running", "worker_done", "store"}}
C7_AnyStore ==
    \A j \in Jobs :
        lookup_log[j].seen /\ lookup_log[j].up /\ lookup_log[j].good # None =>
            lookup_log[j].result =
                IF lookup_log[j].good_live THEN lookup_log[j].good ELSE None

\* the stored output is empty and alive, the lookup reached the store, and
\* get_cached_result returned None
C7_Witness ==
    \E j \in Jobs :
        /\ lookup_log[j].seen /\ lookup_log[j].up
        /\ lookup_log[j].good_live /\ lookup_log[j].good = Empty
        /\ lookup_log[j].result = None

\* what get_cached_result returns in every case: the output of the latest
\* cache_result on identical bytes that reached the store, while its time to
\* live lasts, when that output is not empty and the lookup reaches the
\* store; a miss in every other case
LookupAfterStore ==
    \A j \in Jobs :
        lookup_log[j].seen =>
            lookup_log[j].result =
                IF /\ lookup_log[j].up
                   /\ lookup_log[j].good_live
                   /\ Len(lookup_log[j].good) > 0
                THEN lookup_log[j].good
                ELSE None

\* C8: for a store that answers, when a job was offloaded, stored its result
\* and delivered it, a later job on the same photo whose lookup falls within
\* the time to live is a hit and is never offloaded.
C8_AlwaysHits ==
    \A j \in Jobs :
        lookup_log[j].seen /\ lookup_log[j].up /\ lookup_log[j].sent_live =>
            Hit(j) /\ offloaded[j] = 0

\* a job stored and delivered its result, and a later job on the same photo
\* looked up within the time to live, missed, and was offloaded again
C8_Witness ==
    \E i, j \in Jobs :
        /\ i # j /\ photo[i] = photo[j]
        /\ outcome[i] = "success" /\ store_log[i].up /\ offloaded[i] = 1
        /\ lookup_log[j].up /\ lookup_log[j].sent_live
        /\ Miss(j) /\ offloaded[j] = 1

\* what handle_image guarantees of the cache: a job that reaches cache_result
\* missed the cache and offloaded exactly once; a store that reaches the
\* cache store leaves its output under the fingerprint of the bytes it
\* hashed; and a job whose lookup reaches the store while a non-empty output
\* for its bytes is alive there is a hit that never offloads
SecondJobHits ==
    /\ \A i \in Jobs :
          store_log[i].seen => Miss(i) /\ offloaded[i] = 1
    /\ \A b \in Hashable :
          Live(last_good[b]) =>
              RedisGet(redis, CacheKey(Md5(b)), now) = last_good[b].out
    /\ \A j \in Jobs :
          /\ lookup_log[j].seen /\ lookup_log[j].up
          /\ lookup_log[j].good_live /\ Len(lookup_log[j].good) > 0
          => Hit(j) /\ offloaded[j] = 0 /\ outcome[j] = "cached"

\* a second job on the same photo is served from the cache
SecondJobHit ==
    \E i, j \in Jobs :
        /\ i # j /\ photo[i] = photo[j]
        /\ outcome[i] = "success" /\ store_log[i].up /\ offloaded[i] = 1
        /\ outcome[j] = "cached" /\ offloaded[j] = 0

\* C11: when two cache_result calls for one fingerprint were in flight
\* together and both reached the store, a lookup of the fingerprint within
\* the time to live returns exactly the output stored last, never a miss.
C11_LastWriteWins ==
    \A i, k \in Jobs :
        /\ i # k /\ store_log[i].seen /\ store_log[k].seen
        /\ store_log[i].up /\ store_log[k].up /\ store_log[i].raced
        /\ store_log[i].data = store_log[k].data
        /\ store_log[i].data \in Hashable
        /\ Live(last_good[store_log[i].data])
        => get_cached_result(TRUE, redis,
                             CacheKey(Md5(store_log[i].data)), now)
              = last_good[store_log[i].data].out

\* both stores reached the store, the empty output last, and a lookup of
\* the fingerprint within the time to live is a miss
C11_Witness ==
    \E i, k \in Jobs :
        /\ i # k /\ store_log[i].seen /\ store_log[k].seen
        /\ store_log[i].up /\ store_log[k].up /\ store_log[i].raced
        /\ store_log[i].data = store_log[k].data
        /\ store_log[i].data \in Hashable
        /\ Live(last_good[store_log[i].data])
        /\ last_good[store_log[i].data].out = Empty
        /\ get_cached_result(TRUE, redis,
                             CacheKey(Md5(store_log[i].data)), now) = None

\* what the store itself holds after any stores, concurrent or not: the
\* whole output of the setex that reached it last, under that key alone
LastWriteWinsInStore ==
    /\ \A b \in Hashable :
          Live(last_good[b]) =>
              RedisGet(redis, CacheKey(Md5(b)), now) = last_good[b].out
    /\ \A e \in redis : \A f \in redis : e.key = f.key => e = f

\* a store leaves every other key of the store as it was
OtherKeysUntouched ==
    [][\A j \in Jobs :
          pc[j] = "store" /\ pc'[j] = "done" =>
              \A b \in Hashable :
                  CacheKey(Md5(b)) # cache_key[j] =>
                      RedisGet(redis', CacheKey(Md5(b)), now)
                          = RedisGet(redis, CacheKey(Md5(b)), now)]_vars

\* two stores for one fingerprint raced, a non-empty output came last and
\* is what the store returns
RacedStoresServed ==
    \E i, k \in Jobs :
        /\ i # k /\ store_log[i].up /\ store_log[k].up /\ store_log[i].raced
        /\ store_log[i].data = store_log[k].data
        /\ store_log[i].data \in Hashable
        /\ Live(last_good[store_log[i].data])
        /\ Len(last_good[store_log[i].data].out) > 0
        /\ RedisGet(redis, CacheKey(Md5(store_log[i].data)), now)
              = last_good[store_log[i].data].out

\* C9: a cache-store failure never fails a job: a failed lookup is a miss
\* and the job goes on to process_request, a failed store is swallowed and
\* the job goes on to answer_photo (which fails only when the output file is
\* gone); no job ends with a cache error.
C9_CacheFailureContained ==
    \A j \in Jobs :
        /\ outcome[j] # "cache_error"
        /\ lookup_log[j].seen /\ ~lookup_log[j].up
              => lookup_log[j].result = None /\ arrival[j] # 0
        /\ store_log[j].seen /\ ~store_log[j].up
              => outcome[j] \in {"success", "undelivered"}

C9_Witness ==
    \E j \in Jobs :
        /\ lookup_log[j].seen /\ ~lookup_log[j].up
        /\ store_log[j].seen /\ ~store_log[j].up
        /\ outcome[j] = "success"

C12_SweepEmptiesTracked == sweep_log.left = {}

\* a sweep met a path whose unlink raised and kept exactly that path tracked
C12_Witness ==
    /\ cleaner.swept
    /\ sweep_log.failed # {}
    /\ sweep_log.left = sweep_log.failed

C13_PastFailure ==
    /\ sweep_log.failed # {}
    /\ sweep_log.some

\* C14: while the cleanup loop keeps running, a temporary file on disk is
\* eventually removed from disk (by its job's own cleanup or by a sweep), or
\* its deletion is being refused at that moment.
C14_EventuallyRemoved ==
    \A p \in SweepPaths : Exists(p) ~> (~Exists(p) \/ p \in stuck)

\* a finished job's file is on disk, deletable and no longer tracked
C14_Witness ==
    \E p \in SweepPaths :
        /\ pc[p[1]] = "done"
        /\ Exists(p)
        /\ p \notin stuck
        /\ p \notin temp_files

\* a file stays on disk only while it is tracked, its job is running, or
\* an unlink was refused
OrphanOnlyAfterRefusal ==
    \A p \in Paths :
        (pc[p[1]] = "done" /\ Exists(p)) => outcome[p[1]] = "cleanup_error"

\* C15: when a job has finished, on whatever exit path, neither of its two
\* temporary files is tracked and neither is on disk.
C15_CleanOnEveryExit ==
    \A j \in Jobs :
        pc[j] = "done" =>
            /\ InPath(j) \notin temp_files /\ OutPath(j) \notin temp_files
            /\ input_file[j] = NoFile /\ output_file[j] = NoFile

\* a job ended by the exception of an unlink and left its output file behind
C15_Witness ==
    \E j \in Jobs :
        /\ pc[j] = "done" /\ outcome[j] = "cleanup_error"
        /\ OutPath(j) \notin temp_files
        /\ output_file[j] # NoFile

\* a job that ended otherwise than by the exception of an unlink left
\* nothing tracked and nothing on disk
CleanUnlessRefused ==
    \A j \in Jobs :
        (pc[j] = "done" /\ outcome[j] # "cleanup_error") =>
            /\ InPath(j) \notin temp_files /\ OutPath(j) \notin temp_files
            /\ input_file[j] = NoFile /\ output_file[j] = NoFile

\* C16 (as amended): every tick of the cleanup loop whose memory probe
\* answers performs a sweep of the tracked set, with the garbage-collection
\* request exactly when memory usage is not below the limit; a tick whose
\* probe raises does nothing more, and no tick ends the loop.
C16_TickSweeps ==
    cleaner.seen =>
        /\ cleaner.alive
        /\ cleaner.path \in {"routine", "aggressive", "error"}
        /\ (cleaner.path = "error" <=> ~cleaner.swept)
        /\ (cleaner.path = "aggressive" <=>
              (cleaner.swept /\ cleaner.memory_mb >= memory_limit_mb))
        /\ (cleaner.gc <=> cleaner.path = "aggressive")
        /\ (cleaner.swept =>
              sweep_log.left = sweep_log.failed /\ sweep_log.gone)

\* the tick after one that raised swept aggressively at exactly the limit
C16_Witness ==
    /\ cleaner.after_error
    /\ cleaner.swept /\ cleaner.gc
    /\ cleaner.memory_mb = memory_limit_mb
    /\ sweep_log.some

\* C16 as claimed: every tick performs a sweep, aggressive exactly when
\* memory usage exceeds the limit.
C16_SweepOnEveryTick ==
    cleaner.seen =>
        /\ cleaner.swept
        /\ (cleaner.gc <=> cleaner.memory_mb > memory_limit_mb)

\* the two ways a tick departs from the claim
TickAtLimit ==
    cleaner.swept /\ cleaner.gc /\ cleaner.memory_mb = memory_limit_mb
TickWithoutSweep == cleaner.seen /\ ~cleaner.swept /\ cleaner.alive

\* ------------------------------------------------------- health properties
Components == last_health_check.components
Overall == last_health_check.overall_status
ProbeFailed ==
    health_log.db # Ok \/ health_log.ping # Ok \/ health_log.net # Ok
HighUsage == health_log.cpu > CriticalAbove \/ health_log.mem > CriticalAbove

\* C17: each component's status in a check's snapshot depends on its own
\* probe alone: it is healthy exactly when that probe succeeded and carries
\* that probe's reason otherwise; when the ping alone fails and no reading
\* is above 95, redis is unhealthy with the ping's reason, database and model
\* are healthy and the overall status is "degraded".
C17_Independent ==
    health_log.seen =>
        /\ (Components.database = Healthy <=> health_log.db = Ok)
        /\ (Components.redis = Healthy <=> health_log.ping = Ok)
        /\ (Components.model = Healthy <=> health_log.net = Ok)
        /\ (health_log.db = NoPool =>
              Components.database = Unhealthy("no connection"))
        /\ (health_log.db \notin {Ok, NoPool} =>
              Components.database = Unhealthy(health_log.db[2]))
        /\ (health_log.ping # Ok =>
              Components.redis = Unhealthy(health_log.ping[2]))
        /\ (health_log.net # Ok =>
              Components.model = Unhealthy("model not loaded"))
        /\ ((health_log.ping # Ok /\ health_log.db = Ok /\ health_log.net = Ok
             /\ ~HighUsage) => Overall = "degraded")

\* a check whose ping alone failed, under readings at the high threshold
C17_Witness ==
    /\ health_log.seen
    /\ health_log.ping = Raise("timeout")
    /\ health_log.db = Ok /\ health_log.net = Ok
    /\ health_log.cpu = CriticalAbove
    /\ Components.redis = Unhealthy("timeout")
    /\ Components.database = Healthy /\ Components.model = Healthy
    /\ Overall = "degraded"

\* C18: the overall status of a check is "critical" exactly when the CPU or
\* the memory reading is above 95, otherwise "degraded" exactly when one of
\* the three probes failed, otherwise "healthy"; the system entry reports the
\* readings and is "warning" exactly when one of them is 90 or more, which
\* by itself changes nothing in the overall status.
C18_OverallDerived ==
    health_log.seen =>
        /\ (Overall = "critical" <=> HighUsage)
        /\ (Overall = "degraded" <=> (~HighUsage /\ ProbeFailed))
        /\ (Overall = "healthy" <=> (~HighUsage /\ ~ProbeFailed))
        /\ Components.system.cpu_percent = health_log.cpu
        /\ Components.system.memory_percent = health_log.mem
        /\ (Components.system.status = "warning" <=>
              (health_log.cpu >= WarnAt \/ health_log.mem >= WarnAt))
        /\ Components.system.status \in {"healthy", "warning"}

\* readings at the two thresholds: a warning, and the overall status healthy
C18_Witness ==
    /\ health_log.seen
    /\ health_log.cpu = CriticalAbove /\ health_log.mem = WarnAt
    /\ ~ProbeFailed
    /\ Components.system.status = "warning"
    /\ Overall = "healthy"

\* a critical check with every probe healthy, and one with every probe failed
CriticalAllHealthy == health_log.seen /\ Overall = "critical" /\ ~ProbeFailed
CriticalAllFailed ==
    /\ health_log.seen /\ Overall = "critical"
    /\ health_log.db # Ok /\ health_log.ping # Ok /\ health_log.net # Ok

\* C19: health_status is "unknown" exactly as long as no check_health has
\* completed; from then on it is the overall status of the snapshot of the
\* check that completed last, whatever it was before, and never "unknown".
C19_Memoryless ==
    /\ (health_status = "unknown" <=> ~health_log.seen)
    /\ (last_health_check = NoSnapshot <=> ~health_log.seen)
    /\ (health_log.seen =>
          /\ health_status = Overall
          /\ health_status \in {"healthy", "degraded", "critical"})

\* a check that found everything healthy right after a critical one
C19_Witness ==
    /\ health_log.seen
    /\ health_log.prev = "critical"
    /\ health_status = "healthy"

\* the status before and after the last completed check
Follows(before, after) ==
    health_log.seen /\ health_log.prev = before /\ health_status = after
HealthyToDegraded == Follows("healthy", "degraded")
HealthyToCritical == Follows("healthy", "critical")
DegradedToHealthy == Follows("degraded", "healthy")
DegradedToCritical == Follows("degraded", "critical")
CriticalToDegraded == Follows("critical", "degraded")
StaysCritical == Follows("critical", "critical")
\* a check raised and a check is in flight while the status stays unknown
UnknownAfterRaise ==
    health_loop.raised /\ health_status = "unknown" /\ ~health_log.seen

\* C20: the monitoring loop never stops: each check it starts returns or
\* raises, and after each of them, one that raised included, its sleep ends
\* and the next check is started and completed.
C20_MonitoringGoesOn ==
    /\ [](health_loop.alive)
    /\ (checker["monitor"].pc = "sleep") ~> (checker["monitor"].pc = "database")
    /\ (checker["monitor"].pc = "database") ~> (checker["monitor"].pc = "sleep")
    /\ (checker["monitor"].pc = "sleep" /\ health_loop.raised)
           ~> (checker["monitor"].pc = "sleep" /\ health_loop.after_raise)

\* the check that followed one that raised has completed
C20_Witness ==
    /\ health_loop.after_raise /\ ~health_loop.raised
    /\ checker["monitor"].pc = "sleep"
    /\ health_log.seen

\* C23: what the offloaded function did reaches the job that awaits it: when
\* it raised, the job ends by that error (recorded once) and goes on to
\* nothing else; when it returned, the job goes on with exactly the image
\* returned.
C23_ResultOrErrorDelivered ==
    [][\A j \in Jobs :
         (pc[j] = "worker_done" /\ pc'[j] # "worker_done"
          /\ outcome'[j] # "cancelled") =>
            IF colorized_image[j] = Raised
            THEN /\ pc'[j] = "done" /\ outcome'[j] = "error"
                 /\ error_count' = error_count + 1
                 /\ released'[j] = released[j] + 1
            ELSE /\ pc'[j] = "store"
                 /\ result_bytes'[j] = imwrite(colorized_image[j])
                 /\ colorized_image'[j] = colorized_image[j]
                 /\ released'[j] = released[j] + 1]_vars

\* one job ended by the error of its transformation, another got its result
C23_Witness ==
    \E i, j \in Jobs :
        /\ outcome[i] = "error" /\ offloaded[i] = 1 /\ error_count >= 1
        /\ pc[j] = "store" /\ offloaded[j] = 1
        /\ result_bytes[j] = imwrite(colorize(input_file[j], TRUE))

\* C24: active_tasks is the number of process_image_async calls in flight,
\* and max_active_tasks the largest value active_tasks has had.
C24_CountersExact ==
    /\ active_tasks = Cardinality(Executing)
    /\ max_active_tasks >= active_tasks

\* a call was cancelled in the thread pool: nothing is in flight and
\* active_tasks is not 0
C24_Witness ==
    /\ Executing = {}
    /\ active_tasks > 0
    /\ \E j \in Jobs : /\ outcome[j] = "cancelled" /\ offloaded[j] = 1
                       /\ store_log[j].data = None

\* active_tasks counts the calls in flight and those that were cancelled
\* while in the pool; the peak never falls and is never behind
CancelledInPool ==
    {j \in Jobs : /\ outcome[j] = "cancelled" /\ offloaded[j] = 1
                  /\ store_log[j].data = None}
CountsInFlightAndCancelled ==
    active_tasks = Cardinality(Executing) + Cardinality(CancelledInPool)
PeakIsLargest ==
    [][/\ max_active_tasks' >= max_active_tasks
       /\ max_active_tasks' >= active_tasks'
       /\ (max_active_tasks' # max_active_tasks
             => max_active_tasks' = active_tasks')]_vars

\* C29: the hit and miss counters account for every completed lookup: hits
\* are the lookups that returned an output, misses those that returned None,
\* a lookup that could not reach the store included.
C29_EveryLookupCounted ==
    /\ cache_hits = Cardinality({j \in Jobs : Hit(j)})
    /\ cache_misses = Cardinality({j \in Jobs : Miss(j)})

\* a lookup failed on the store, returned None and was counted nowhere
C29_Witness ==
    \E j \in Jobs :
        /\ lookup_log[j].seen /\ ~lookup_log[j].up
        /\ lookup_log[j].result = None
        /\ cache_hits + cache_misses = 0

\* the counters account for every lookup that the store answered
AnsweredLookupsCounted ==
    /\ cache_hits = Cardinality({j \in Jobs : Hit(j) /\ lookup_log[j].up})
    /\ cache_misses = Cardinality({j \in Jobs : Miss(j) /\ lookup_log[j].up})

\* C30: a job whose transformation raised goes on to no cache_result, and
\* every entry that appears in the store is the output of a job whose
\* transformation returned.
C30_StoreOnlyAfterSuccess ==
    [][/\ \A j \in Jobs :
             (pc[j] = "worker_done" /\ colorized_image[j] = Raised)
                 => pc'[j] # "store"
       /\ \A e \in redis' \ redis :
             \E k \in Jobs :
                 /\ pc[k] = "store"
                 /\ colorized_image[k] \notin {Raised, None}
                 /\ e.val = imwrite(colorized_image[k])]_vars

\* a transformation raised, nothing was stored, and the next job of the
\* same photo missed and holds the slot to transform it again
C30_Witness ==
    \E i, j \in Jobs :
        /\ outcome[i] = "error" /\ released[i] = 1
        /\ arrival[j] > arrival[i] /\ arrival[i] > 0
        /\ Miss(j) /\ lookup_log[j].up /\ pc[j] = "running"
        /\ redis = {}

\* ------------------------------------------------------ metrics properties
\* a record_metric call completes: its ltrim was answered and it returns
Completes(c) ==
    /\ recorder[c].pc = "ltrim"
    /\ recorder'[c].pc = "idle" /\ recorder'[c].done = "ok"

\* the entries of the log, newest first, are numbered downwards
NewestFirst ==
    \A i, k \in 1..Len(metrics) : i < k => metrics[i][2].seq > metrics[k][2].seq

\* what a completed call leaves is the front of the log it found: only the
\* oldest entries go, and never more than MetricsCap + 1 stay
EvictsOldest ==
    [][\A c \in Recorders : Completes(c) =>
          /\ Len(metrics') <= MetricsCap + 1
          /\ metrics' = SubSeq(metrics, 1, Len(metrics'))
          /\ Len(metrics') < Len(metrics) => Len(metrics') = MetricsCap + 1]_vars

\* C21: after any record_metric call completes, the metrics log holds at
\* most MetricsCap samples (the 10,000 of the code, scaled down), the newest
\* ones, in the order they were recorded.
C21_LogBounded ==
    [][\A c \in Recorders : Completes(c) =>
          /\ Len(metrics') <= MetricsCap
          /\ metrics' = SubSeq(metrics, 1, Len(metrics'))]_vars

\* a call has completed and the log holds one entry more than the cap
C21_Witness ==
    \E c \in Recorders :
        /\ recorder[c].done = "ok"
        /\ Len(metrics) = MetricsCap + 1
        /\ pushes = MetricsCap + 1
        /\ \A d \in Recorders : recorder[d].pc = "idle"

\* a completed call has evicted the oldest entry
OldestEvicted ==
    /\ \E c \in Recorders : recorder[c].done = "ok"
    /\ pushes = MetricsCap + 2 /\ Len(metrics) = MetricsCap + 1
    /\ metrics[1][2].seq = pushes

\* the positions of a log whose entry parses as a sample recorded after the
\* cutoff, and the sum of the values at a set of positions
After(log, cutoff_time) ==
    {i \in 1..Len(log) :
        log[i][1] = "json" /\ log[i][2].timestamp > cutoff_time}
RECURSIVE SumAt(_, _)
SumAt(log, at) ==
    IF at = {} THEN 0
    ELSE LET i == CHOOSE k \in at : TRUE
         IN  log[i][2].value + SumAt(log, at \ {i})
Summarized == report.op = "get_metrics_summary" /\ report.arg.up

OlderLeftOut ==
    /\ Summarized
    /\ \E i \in 1..Len(report.log) :
           /\ report.log[i][1] = "json"
           /\ report.log[i][2].timestamp < report.arg.cutoff_time
    /\ report.value.metrics_count = 2
    /\ report.value.total_requests = 1

\* ---------------------------------------------------- reporting properties
\* a step in which get_system_stats, get_cache_stats or get_metrics_summary
\* returns, and one in which the /health command's check_health returns
Reports == report'.op # report.op
CommandChecked ==
    checker["command"].pc = "redis" /\ checker'["command"].pc = "idle"

\* counters, tracked set, files, cache, admission state and metrics log
Counted ==
    <<prog_vars, lb_vars, stat_vars, sweep_vars, metrics, pushes, recorder,
      pools, service>>

\* C28 (as stated): get_system_stats, get_cache_stats, check_health as the
\* health command uses it, and get_metrics_summary leave every counter, the
\* tracked set, the cache, the metrics log and the stored health state
\* unchanged.
C28_AllReadOnly ==
    [][Reports \/ CommandChecked =>
          /\ UNCHANGED Counted
          /\ health_status' = health_status]_vars

\* C28: get_system_stats, get_cache_stats and get_metrics_summary leave
\* every counter, the tracked set, the cache, the metrics log and the stored
\* health state unchanged; check_health leaves all of these unchanged but
\* the stored health state, which becomes the snapshot it returns (or stays
\* as it was when the check raised).
C28_ReadOnlyButHealth ==
    [][/\ Reports =>
              /\ UNCHANGED Counted
              /\ UNCHANGED <<health_status, last_health_check>>
       /\ CommandChecked =>
              /\ UNCHANGED Counted
              /\ \/ UNCHANGED <<health_status, last_health_check>>
                 \/ /\ health_log'.prev = health_status
                    /\ health_status' = last_health_check'.overall_status]_vars

\* a report was made of a cache that answered a lookup, with a sample in
\* the metrics log, a tracked file and a health state stored by a command
C28_Witness ==
    /\ report.op \in {"get_system_stats", "get_cache_stats",
                      "get_metrics_summary"}
    /\ cache_hits + cache_misses > 0 /\ request_count > 0
    /\ Len(metrics) > 0 /\ temp_files # {}
    /\ health_status = "degraded" /\ checker["command"].pc = "idle"

\* the /health command replaced a stored health state by another
HealthOverwritten ==
    /\ health_log.seen /\ health_log.prev = "healthy"
    /\ health_status = "degraded" /\ checker["command"].pc = "idle"

\* ---------------------------------------------------- lifecycle properties
\* a component or background loop that uses the pools is at work: the
\* monitoring loop exists, a job is in flight, a sample is being recorded
InUse ==
    \/ checker["monitor"].pc # "idle"
    \/ \E j \in Jobs : pc[j] \notin {"idle", "done"}
    \/ \E c \in Recorders : recorder[c].pc # "idle"
PoolsOpen == pools.db_pool = "open" /\ pools.redis_pool = "open"

\* a step that completes an operation on the cache store: a lookup or a
\* store of the cache, a push or trim of the metrics log, the ping of a
\* health check
StoreOperation ==
    \/ \E j \in Jobs : \E up \in BOOLEAN : CacheGet(j, up)
    \/ \E j \in Jobs : \E up \in BOOLEAN : CacheStore(j, up)
    \/ \E c \in Recorders : \E up \in BOOLEAN : Lpush(c, up)
    \/ \E c \in Recorders : \E up \in BOOLEAN : Ltrim(c, up)
    \/ \E ping \in PingOutcomes : check_health("monitor", ping, Ok, 50, 50)

\* C25: the pools outlive their users: while any component or background
\* loop that uses them is at work (cache, metrics, health monitoring, jobs
\* in flight) the pools are open, opened before and not yet closed, and no
\* store operation is performed on a closed pool.
C25_PoolsOutliveUsers ==
    [][/\ InUse' => PoolsOpen'
       /\ StoreOperation => pools.redis_pool # "closed"]_vars

\* the cache-store pool is closed, close_services is not over, and the
\* monitoring loop, which nothing stopped, has a ping in flight after an
\* earlier check
C25_Witness ==
    /\ pools.redis_pool = "closed"
    /\ service.phase = "close_rest"
    /\ checker["monitor"].pc = "redis"
    /\ health_log.seen

\* the pools are open before anything uses them: until close_services
\* begins, whatever is at work finds both pools open
OpenedBeforeUse ==
    InUse /\ service.phase \in {"new", "init_services", "polling"} => PoolsOpen

\* C26: when creating the pools fails in init_pools, the exception reaches
\* the caller of init_pools and then the caller of init_services, and the
\* service never accepts jobs: polling is not started and no admission,
\* cache or background component is created.
C26_PoolFailureIsFatal ==
    service.pool_failure =>
        /\ service.init_pools = "raised" /\ service.init_services = "raised"
        /\ ~service.polled /\ ~service.components
        /\ service.phase \notin {"init_services", "polling"}
        /\ checker["monitor"].pc = "idle"
        /\ \A j \in Jobs : pc[j] = "idle"
        /\ request_count = 0 /\ metrics = <<>>

\* create_pool succeeded, from_url raised, and start_polling has run
\* close_services, which closed the one pool there was
C26_Witness ==
    /\ service.pool_failure /\ service.phase = "closed"
    /\ pools = [db_pool |-> "closed", redis_pool |-> "none"]

\* close_pools does not raise: close_services always goes on after it
ClosePoolsReturns ==
    service.phase \in {"close_rest", "closed", "exited"} =>
        service.close_pools = "returned"

\* when neither close raises, both pools that were opened are closed
ClosedWhenNothingRaises ==
    [][/\ service.phase = "disconnect" /\ service'.phase = "close_rest"
       /\ pools'.redis_pool = "closed"
       => pools'.db_pool = "closed"]_vars

\* C27: close_pools releases all connections and never raises: after it
\* returns, both the relational-store pool and the cache-store pool are
\* closed, also when closing one of them fails.
C27_BothClosed ==
    /\ service.phase \in {"close_rest", "closed", "exited"} =>
           service.close_pools = "returned"
    /\ service.close_pools = "returned" =>
           pools.db_pool # "open" /\ pools.redis_pool # "open"

\* db_pool.close() raised: close_pools has returned and left both pools open
C27_Witness ==
    /\ service.close_pools = "returned" /\ service.phase = "closed"
    /\ pools = [db_pool |-> "open", redis_pool |-> "open"]

\* ------------------------------------------------- deduplication properties
\* the jobs whose transformation was submitted to the thread pool
Transformed == {j \in Jobs : offloaded[j] > 0}

\* C31: identical work is done once: among jobs whose inputs hold identical
\* bytes, submitted while the entry would be live (jobs in flight at the
\* same time included), at most one has its transformation executed.
C31_TransformedOnce ==
    \A i, j \in Transformed :
        photo[i] = photo[j] /\ photo[i] # None => i = j

\* two jobs on the same photo both missed a cache that answered, both were
\* transformed and both stored their result
C31_Witness ==
    \E i, j \in Jobs :
        /\ i # j /\ photo[i] = photo[j] /\ photo[i] = PhotoA
        /\ lookup_log[i].up /\ lookup_log[j].up
        /\ offloaded[i] = 1 /\ offloaded[j] = 1
        /\ store_log[i].seen /\ store_log[i].up
        /\ store_log[j].seen /\ store_log[j].up
        /\ pc[i] = "done" /\ pc[j] = "done"

\* a job that looks up after an identical job stored its result is not
\* transformed again: a lookup that found the entry ends the job
HitSkipsTransformation ==
    \A j \in Jobs :
        lookup_log[j].seen /\ Truthy(lookup_log[j].result) =>
            offloaded[j] = 0 /\ outcome[j] \in {"cached", "cleanup_error"}

\* ---------------------------------------------- request counter properties
\* the handle_image invocations in flight
Handling == {j \in Jobs : pc[j] \notin {"idle", "done"}}

\* C32: PerformanceMonitor.active_requests equals the number of
\* handle_image invocations in flight: every invocation adds one on entry
\* and takes one off on exit, on every path.
C32_ActiveCountsInFlight == monitor_active = Cardinality(Handling)

\* a job answered from the cache has ended while another is still in
\* flight, and the counter shows nothing in flight
C32_Witness ==
    /\ \E j \in Jobs : outcome[j] = "cached"
    /\ Handling # {}
    /\ monitor_active = 0

\* the counter never shows more than is in flight, and every path but the
\* cache hit takes off exactly one
NeverOvercounts == monitor_active <= Cardinality(Handling)
ExactWithoutHits ==
    (\A j \in Jobs : outcome[j] # "cached" /\
                     ~(lookup_log[j].seen /\ Truthy(lookup_log[j].result)))
        => monitor_active = Cardinality(Handling)

\* ---------------------------------------------------- live-file properties
\* job j is between registering its files and its own cleanup
Registered(j) ==
    pc[j] \in {"download", "lookup", "waiting", "running", "worker_done",
               "store"}
Sweeps == \E m \in Readings : \E ok \in BOOLEAN : periodic_cleanup(m, ok)

\* C33: the periodic or forced sweep never deletes a transient file of a
\* job still in flight: a sweep leaves on disk the input and output files
\* of every job between registering its files and its own cleanup.
C33_SweepSparesLiveJobs ==
    [][Sweeps =>
          \A j \in Jobs : Registered(j) =>
              /\ input_file'[j] = input_file[j]
              /\ output_file'[j] = output_file[j]]_vars

\* the forced sweep found every tracked file on disk and deleted it, and the
\* job whose transformation is running has no input file
C33_Witness ==
    /\ cleaner.swept /\ cleaner.gc
    /\ sweep_log.some /\ ~sweep_log.missing /\ sweep_log.failed = {}
    /\ pc[1] = "running"
    /\ input_file[1] = NoFile /\ output_file[1] = NoFile

\* ------------------------------------------------------ cache key properties
\* job j's transformation succeeded and it calls cache_result
CallsCacheResult(j) == pc[j] = "worker_done" /\ pc'[j] = "store"

\* C34: a job that missed the cache and whose transformation succeeded
\* stores its result under the key it looked up: the fingerprint computed in
\* cache_result equals the one computed in get_cached_result, under every
\* interleaving with other jobs and with the cleanup loop.
C34_StoresUnderLookupKey ==
    [][\A j \in Jobs : CallsCacheResult(j) => cache_key'[j] = cache_key[j]]_vars

\* a job looked a photo up under the digest of its bytes; its input file was
\* swept while the result was on its way, and cache_result hashed the clock
C34_Witness ==
    \E j \in Jobs :
        /\ pc[j] = "store"
        /\ lookup_log[j].seen /\ lookup_log[j].data = PhotoA
        /\ store_log[j].data = NoFile
        /\ cache_key[j] # CacheKey(Md5(PhotoA))
        /\ cleaner.swept

\* ------------------------------------------------------ rate-limit properties
\* C35: the per-user limit holds under concurrency: under any interleaving
\* of one user's requests, check_rate_limit returns True for at most
\* RATE_LIMIT_PER_USER requests within one window of the rate-limit key.
C35_LimitEnforced == granted <= RATE_LIMIT_PER_USER

\* more requests than the limit were admitted in one window of a key that
\* never expired in between, and the counter shows fewer
C35_Witness ==
    /\ granted > RATE_LIMIT_PER_USER
    /\ KeyExists(rate_key) /\ rate_key.ttl
    /\ rate_key.val < granted
    /\ \A c \in Requests : limiter[c].pc = "idle"

\* no request is inside check_rate_limit and the limit is reached on a key
\* with no time to live
LockedOut ==
    /\ \A c \in Requests : limiter[c].pc = "idle"
    /\ rate_key.val >= RATE_LIMIT_PER_USER /\ ~rate_key.ttl

\* from then on the key stays as it is: every later request is refused
LockOutIsPermanent == [][LockedOut => rate_key' = rate_key]_vars

\* C36: the rate-limit counter always expires: whenever a user's key exists
\* it carries a time to live, so a user who was refused is admitted again.
C36_KeyCarriesTtl == KeyExists(rate_key) => rate_key.ttl

\* a request was refused on a key at the limit that has no time to live
C36_Witness ==
    /\ LockedOut
    /\ \E c \in Requests : limiter[c].returned = "False"

\* ---------------------------------------------------- slot count properties
\* the waiters whose future was set: the permit is theirs, and they have not
\* resumed yet
HandedOver ==
    Cardinality({i \in 1..Len(sem_waiters) : sem_waiters[i].done})

\* C37 (as stated): at every suspension point LoadBalancer.active_requests
\* equals the number of slots held: active_requests plus the free permits of
\* the semaphore is max_concurrent, and 0 <= active_requests <= max_concurrent.
C37_ActivePlusFree ==
    /\ active_requests + sem_value = MaxConcurrent
    /\ active_requests \in 0..MaxConcurrent

\* a job left its slot and the permit went to a waiter that has not resumed:
\* nothing is counted active and no permit is free
C37_Witness ==
    /\ active_requests = 0 /\ sem_value = 0
    /\ \E j \in Jobs : pc[j] = "waiting" /\ WaiterOf(sem_waiters, j).done
    /\ \E i \in Jobs : released[i] = 1

\* C37: at every suspension point LoadBalancer.active_requests equals the
\* number of jobs executing inside process_request and lies in
\* 0..max_concurrent; every permit is free, counted active, or handed to a
\* woken waiter that has not resumed: active_requests + free permits +
\* permits handed over = max_concurrent.
C37_PermitsAccounted ==
    /\ active_requests + sem_value + HandedOver = MaxConcurrent
    /\ active_requests \in 0..MaxConcurrent
    /\ active_requests = Cardinality(Executing)

\* C38 (as stated): each handle_image invocation records at most one error,
\* so error_count never exceeds request_count in any reachable state.
C38_ErrorsWithinRequests == error_count <= request_count

\* an invalid image was recorded as an error, and the unlink that raised in
\* the inner `finally` was recorded by the outer `except Exception` as well
C38_Witness ==
    /\ request_count = 1
    /\ error_count = 2
    /\ pc[1] = "done"
    /\ photo[1] = PhotoX
    /\ outcome[1] = "cleanup_error"

\* request_count never decreases
RequestCountGrows == [][request_count' >= request_count]_vars

\* an invocation records no more than two errors
AtMostTwoErrorsEach == error_count <= 2 * request_count

TypeOK ==
    /\ now \in 0..MaxTime
    /\ sem_value \in 0..MaxConcurrent
    /\ active_requests \in 0..MaxConcurrent
    /\ pushes \in 0..MaxPushes /\ Len(metrics) <= MaxPushes
    /\ pools.db_pool \in {"none", "open", "closed"}
    /\ pools.redis_pool \in {"none", "open", "closed"}
    /\ reader.pc \in {"idle", "lrange"}

====
